---- MODULE Spec2Model ----
(***************************************************************************)
(* TLA+ model of the tinyos3 process / thread / pipe / socket core.        *)
(*                                                                         *)
(* The kernel is cooperative: one global mutex is held from syscall entry  *)
(* to the next kernel_wait / kernel_timedwait / kernel_sleep, so every     *)
(* action below is the code that runs between two suspension points.       *)
(* A thread inside kernel_wait is a record with woken = FALSE; a           *)
(* kernel_broadcast on its condition variable sets woken, and the          *)
(* scheduler later runs the thread's Resume action, which re-evaluates the *)
(* while-condition the thread was waiting in.                              *)
(***************************************************************************)
EXTENDS Integers, Sequences, FiniteSets, TLC

(***************************************************************************)
(* Bounds of the model.                                                    *)
(***************************************************************************)
\* Ring size of a pipe (the kernel's value is large; the ring logic is the same).
PIPE_BUFFER_SIZE == 3
\* Kernel threads that issue stream calls.
MaxTasks == 2
\* Longest buffer handed to one pipe_write, largest n of one pipe_read.
MaxLen == 2
\* Total number of bytes offered to pipe_write calls in one run.
MaxOffered == 3
\* Size of the process table PT (pids 0 .. MAX_PROC - 1).
MAX_PROC == 5
\* Threads ever spawned in one run.
MaxThreads == 4
\* Threads of the one process whose joins and detaches are explored (SpecThread).
MaxJoinThreads == 3
\* get_pid of a NULL process.
NOPROC == -1
\* Socket descriptors of one run.
MaxSocks == 3
\* Connection requests of one run.
MaxReqs == 1
\* Size of PORT_MAP (ports 0 .. MAX_PORT - 1).
MAX_PORT == 2
\* The port of a socket without a port, and the descriptor that is none.
NOPORT == 0
NOFILE == -1

Byte == {0, 1}
Tasks == 1 .. MaxTasks
PipeIds == {1, 2, 3}
\* Pipes made by sys_Pipe; the others are the pipes of a socket connection.
UserPipeIds == {1}
SockPipeIds == PipeIds \ UserPipeIds
SockIds == 1 .. MaxSocks
\* Connection requests that may be allocated where the order of a listener's
\* queue is at stake.
MaxQueued == 2
ReqIds == 1 .. MaxQueued
Ports == 0 .. (MAX_PORT - 1)
\* The ports that sys_Socket and sys_Connect accept: MAX_PORT is one of them, and
\* PORT_MAP[MAX_PORT] is the word behind the array.
PortArgs == 0 .. MAX_PORT
\* sys_Accept calls on one listener that never give their reference back.
MaxRefs == 2
\* What the word behind PORT_MAP reads as when it points to no SCB.
WILD == MaxSocks + 1
Ring == 0 .. (PIPE_BUFFER_SIZE - 1)

RECURSIVE SeqsUpTo(_)
SeqsUpTo(n) ==
  IF n = 0 THEN {<<>>}
  ELSE LET S == SeqsUpTo(n - 1) IN
       S \cup {Append(s, b) : s \in {x \in S : Len(x) = n - 1}, b \in Byte}
Buffers == SeqsUpTo(MaxLen)

Pids == 0 .. (MAX_PROC - 1)
\* A thread, its TCB and its PTCB share one identity; a Tid_t is the PTCB's address.
Tids == 1 .. MaxThreads
\* Values handed to Exit and ThreadExit (a fresh PTCB holds exitval 0).
ExitVals == {1, 2}

VARIABLES
  pipe,     \* pipe control blocks: PipeIds -> pipe_cb
  fid,      \* the two descriptors of a pipe made by sys_Pipe: open or closed
  task,     \* what each kernel thread is doing (idle, or inside a blocking call)
  last,     \* the most recent call that returned, with what it saw on return
  hist,     \* per pipe: bytes accepted by writes, bytes returned by reads
  offered,  \* bytes handed to pipe_write calls so far
  scb,      \* socket control blocks: SockIds -> socket_cb
  PORT_MAP, \* Ports -> the listener bound to the port, 0 for NULL; at MAX_PORT, the
            \* word behind the array
  req,      \* connection requests: ReqIds -> connection_request
  sfid,     \* socket descriptors: open or closed
  suaf,     \* kinds of blocks that were used after their free
  PT,            \* the process table: Pids -> PCB
  pcb_freelist,  \* head of the free list of PCBs (linked through parent)
  process_count,
  thr,           \* threads: running in user code, inside a blocking call, or exited
  ptcb,          \* process thread control blocks: Tids -> PTCB
  crash,         \* [panic: an assert failed; uaf: freed memory was used]
  tlast,         \* the thread / process call that returned in the last step, if any
  ghost          \* history: exit values given, successful detaches, joins, Exit calls

sockvars == <<scb, PORT_MAP, req, sfid, suaf>>
ipcvars == <<pipe, fid, task, last, hist, offered, scb, PORT_MAP, req, sfid, suaf>>
procvars == <<PT, pcb_freelist, process_count, thr, ptcb, crash, tlast, ghost>>
vars == <<pipe, fid, task, last, hist, offered, scb, PORT_MAP, req, sfid, suaf,
          PT, pcb_freelist, process_count, thr, ptcb, crash, tlast, ghost>>

(***************************************************************************)
(* Pipe control block (pipe_cb).  reader / writer are TRUE while the       *)
(* pointer is non-NULL.  st and frees are bookkeeping of xmalloc / free.   *)
(* The field counter is only ever incremented and reset (kernel_pipe.c     *)
(* 91, 102, 138, 148) and never decides anything, so it is left out.       *)
(***************************************************************************)
NoPipe ==
  [st |-> "none", reader |-> FALSE, writer |-> FALSE,
   BUFFER |-> [i \in Ring |-> 0], r_position |-> 0, w_position |-> 0,
   frees |-> 0]

\* s: the socket whose Read or Write the thread is inside, 0 for none.
IdleTask ==
  [pc |-> "idle", p |-> 0, buf |-> <<>>, n |-> 0, woken |-> FALSE, waited |-> FALSE,
   s |-> 0]

NoCall ==
  [t |-> 0, op |-> "none", n |-> 0, ret |-> 0, waited |-> FALSE,
   ropen |-> FALSE, wopen |-> FALSE, avail |-> 0, changed |-> FALSE]

\* eof: a read with n > 0 has returned 0; zero: some read has returned 0.
NoHist == [wrote |-> <<>>, got |-> <<>>, eof |-> FALSE, zero |-> FALSE]

\* Unread bytes in the ring.
Unread(pp) == (pp.w_position - pp.r_position + PIPE_BUFFER_SIZE) % PIPE_BUFFER_SIZE

(***************************************************************************)
(* Condition variables.  A task blocked in pipe_write waits on has_space   *)
(* of its pipe, a task blocked in pipe_read on has_data.                   *)
(***************************************************************************)
WaitsOn(tk, p, cv) ==
  /\ tk.p = p
  /\ \/ cv = "has_space" /\ tk.pc = "pipe_write"
     \/ cv = "has_data" /\ tk.pc = "pipe_read"

kernel_broadcast(tasks, p, cv) ==
  [t \in Tasks |->
     IF WaitsOn(tasks[t], p, cv) THEN [tasks[t] EXCEPT !.woken = TRUE] ELSE tasks[t]]

\* kernel_wait: the caller blocks (again) on the condition variable of its call.
kernel_wait(tasks, t, pc, p, buf, n) ==
  [tasks EXCEPT ![t] =
     [pc |-> pc, p |-> p, buf |-> buf, n |-> n, woken |-> FALSE, waited |-> TRUE,
      s |-> tasks[t].s]]

(***************************************************************************)
(* The result of running a kernel function up to its next suspension point *)
(* or its return: the new pipes and tasks, whether it blocked, and, when   *)
(* it returned, its return value and the bytes it stored in the caller's   *)
(* buffer.                                                                 *)
(***************************************************************************)
Returned(pipes, tasks, ret, data) ==
  [pipe |-> pipes, task |-> tasks, blocked |-> FALSE, ret |-> ret, data |-> data]

Blocked(pipes, tasks) ==
  [pipe |-> pipes, task |-> tasks, blocked |-> TRUE, ret |-> 0, data |-> <<>>]

(***************************************************************************)
(* kernel_pipe.c                                                           *)
(***************************************************************************)
\* Mutant: the byte is stored after w_position has moved.
RECURSIVE write_loop_late(_, _, _)
write_loop_late(pp, buf, written_data) ==
  IF (pp.w_position + 1) % PIPE_BUFFER_SIZE # pp.r_position /\ written_data < Len(buf)
  THEN LET w1 == pp.w_position + 1
           w2 == IF w1 >= PIPE_BUFFER_SIZE THEN 0 ELSE w1 IN
       write_loop_late([pp EXCEPT !.BUFFER[w2] = buf[written_data + 1],
                                  !.w_position = w2],
                       buf, written_data + 1)
  ELSE [pp |-> pp, count |-> written_data]

\* The copy loop of pipe_write: store bytes while the ring is not full.
RECURSIVE write_loop(_, _, _)
write_loop(pp, buf, written_data) ==
  IF (pp.w_position + 1) % PIPE_BUFFER_SIZE # pp.r_position /\ written_data < Len(buf)
  THEN LET w1 == pp.w_position + 1 IN
       write_loop([pp EXCEPT !.BUFFER[pp.w_position] = buf[written_data + 1],
                             !.w_position = IF w1 >= PIPE_BUFFER_SIZE THEN 0 ELSE w1],
                  buf, written_data + 1)
  ELSE [pp |-> pp, count |-> written_data]

\* Mutant: no check for a reader that vanished during the wait.
pipe_write_loop_nocheck(pipes, tasks, t, p, buf) ==
  LET pp == pipes[p] IN
  IF (pp.w_position + 1) % PIPE_BUFFER_SIZE = pp.r_position /\ pp.reader
  THEN Blocked(pipes, kernel_wait(tasks, t, "pipe_write", p, buf, Len(buf)))
  ELSE LET w == write_loop(pp, buf, 0) IN
       Returned([pipes EXCEPT ![p] = w.pp],
                kernel_broadcast(tasks, p, "has_data"), w.count, <<>>)

\* pipe_write from its wait loop on: run at entry and again after every wake-up.
pipe_write_loop(pipes, tasks, t, p, buf) ==
  LET pp == pipes[p] IN
  IF (pp.w_position + 1) % PIPE_BUFFER_SIZE = pp.r_position /\ pp.reader
  THEN Blocked(pipes, kernel_wait(tasks, t, "pipe_write", p, buf, Len(buf)))
  ELSE IF ~pp.reader
  THEN Returned(pipes, tasks, -1, <<>>)
  ELSE LET w == write_loop(pp, buf, 0) IN
       Returned([pipes EXCEPT ![p] = w.pp],
                kernel_broadcast(tasks, p, "has_data"), w.count, <<>>)

pipe_write(pipes, tasks, t, p, buf) ==
  IF p = 0 \/ ~pipes[p].writer \/ ~pipes[p].reader
  THEN Returned(pipes, tasks, -1, <<>>)
  ELSE pipe_write_loop(pipes, tasks, t, p, buf)

\* Mutant: the read loop does not stop at w_position.
RECURSIVE read_loop_past(_, _, _)
read_loop_past(pp, n, buf) ==
  IF Len(buf) < n
  THEN LET r1 == pp.r_position + 1 IN
       read_loop_past([pp EXCEPT !.r_position = IF r1 >= PIPE_BUFFER_SIZE THEN 0 ELSE r1],
                      n, Append(buf, pp.BUFFER[pp.r_position]))
  ELSE [pp |-> pp, buf |-> buf]

\* The copy loop of pipe_read: take bytes while the ring is not empty.
RECURSIVE read_loop(_, _, _)
read_loop(pp, n, buf) ==
  IF pp.r_position # pp.w_position /\ Len(buf) < n
  THEN LET r1 == pp.r_position + 1 IN
       read_loop([pp EXCEPT !.r_position = IF r1 >= PIPE_BUFFER_SIZE THEN 0 ELSE r1],
                 n, Append(buf, pp.BUFFER[pp.r_position]))
  ELSE [pp |-> pp, buf |-> buf]

\* Mutant: an empty ring is end of file even while the writer is open.
pipe_read_loop_nowait(pipes, tasks, t, p, n) ==
  LET r == read_loop(pipes[p], n, <<>>) IN
  Returned([pipes EXCEPT ![p] = r.pp],
           kernel_broadcast(tasks, p, "has_space"), Len(r.buf), r.buf)

\* pipe_read from its wait loop on: run at entry and again after every wake-up.
pipe_read_loop(pipes, tasks, t, p, n) ==
  LET pp == pipes[p] IN
  IF pp.w_position = pp.r_position /\ pp.writer
  THEN Blocked(pipes, kernel_wait(tasks, t, "pipe_read", p, <<>>, n))
  ELSE LET r == read_loop(pp, n, <<>>) IN
       Returned([pipes EXCEPT ![p] = r.pp],
                kernel_broadcast(tasks, p, "has_space"), Len(r.buf), r.buf)

pipe_read(pipes, tasks, t, p, n) ==
  IF p = 0 \/ ~pipes[p].reader
  THEN Returned(pipes, tasks, -1, <<>>)
  ELSE pipe_read_loop(pipes, tasks, t, p, n)

\* free(CUR_PIPE)
free_pipe(pp) == [pp EXCEPT !.st = "freed", !.frees = @ + 1]

\* Mutant: the writer's close does not wake the readers.
pipe_writer_close_silent(pipes, tasks, p) ==
  IF p = 0 THEN [pipe |-> pipes, task |-> tasks, ret |-> -1]
  ELSE LET pp == [pipes[p] EXCEPT !.writer = FALSE] IN
       IF ~pp.reader
       THEN [pipe |-> [pipes EXCEPT ![p] = free_pipe(pp)], task |-> tasks, ret |-> 0]
       ELSE [pipe |-> [pipes EXCEPT ![p] = pp], task |-> tasks, ret |-> 0]

pipe_writer_close(pipes, tasks, p) ==
  IF p = 0 THEN [pipe |-> pipes, task |-> tasks, ret |-> -1]
  ELSE LET pp == [pipes[p] EXCEPT !.writer = FALSE] IN
       IF ~pp.reader
       THEN [pipe |-> [pipes EXCEPT ![p] = free_pipe(pp)], task |-> tasks, ret |-> 0]
       ELSE [pipe |-> [pipes EXCEPT ![p] = pp],
             task |-> kernel_broadcast(tasks, p, "has_data"), ret |-> 0]

\* Mutant: the reader's close frees the pipe whether or not the writer is open.
pipe_reader_close_early(pipes, tasks, p) ==
  IF p = 0 THEN [pipe |-> pipes, task |-> tasks, ret |-> -1]
  ELSE [pipe |-> [pipes EXCEPT ![p] = free_pipe([@ EXCEPT !.reader = FALSE])],
        task |-> tasks, ret |-> 0]

pipe_reader_close(pipes, tasks, p) ==
  IF p = 0 THEN [pipe |-> pipes, task |-> tasks, ret |-> -1]
  ELSE LET pp == [pipes[p] EXCEPT !.reader = FALSE] IN
       IF ~pp.writer
       THEN [pipe |-> [pipes EXCEPT ![p] = free_pipe(pp)], task |-> tasks, ret |-> 0]
       ELSE [pipe |-> [pipes EXCEPT ![p] = pp],
             task |-> kernel_broadcast(tasks, p, "has_space"), ret |-> 0]

(***************************************************************************)
(* The stream layer above a pipe made by sys_Pipe.  Each end is one FCB.   *)
(* A Read or Write call holds a reference on its FCB for as long as it     *)
(* runs, Close drops the descriptor's reference, and the stream's Close    *)
(* function runs when the last reference goes.                             *)
(***************************************************************************)
EndOp(end) == IF end = "w" THEN "pipe_write" ELSE "pipe_read"

InFlight(tasks, p, end) ==
  \E t \in Tasks : tasks[t].p = p /\ tasks[t].pc = EndOp(end)

StreamClose(pipes, tasks, p, end) ==
  IF end = "w" THEN pipe_writer_close(pipes, tasks, p)
  ELSE pipe_reader_close(pipes, tasks, p)

\* FCB_decref: the stream's Close runs when no descriptor and no call holds the FCB.
FCB_decref(pipes, tasks, fids, p, end) ==
  IF ~fids[p][end] /\ ~InFlight(tasks, p, end)
  THEN StreamClose(pipes, tasks, p, end)
  ELSE [pipe |-> pipes, task |-> tasks, ret |-> 0]

\* What a returning call saw.
CallRecord(t, op, n, R, p) ==
  [t |-> t, op |-> op, n |-> n, ret |-> R.ret, waited |-> task[t].waited,
   ropen |-> R.pipe[p].reader, wopen |-> R.pipe[p].writer,
   avail |-> Unread(pipe[p]),
   changed |-> \/ R.pipe[p].BUFFER # pipe[p].BUFFER
               \/ R.pipe[p].w_position # pipe[p].w_position]

\* The end of sys_Read / sys_Write: block, or return and drop the FCB reference.
StreamReturn(t, op, n, buf, R, p) ==
  IF R.blocked
  THEN /\ pipe' = R.pipe
       /\ task' = R.task
       /\ UNCHANGED <<fid, last, hist>>
  ELSE LET tasks1 == [R.task EXCEPT ![t] = IdleTask]
           C == FCB_decref(R.pipe, tasks1, fid, p, IF op = "write" THEN "w" ELSE "r")
       IN /\ pipe' = C.pipe
          /\ task' = C.task
          /\ last' = CallRecord(t, op, n, R, p)
          /\ hist' = [hist EXCEPT
                 ![p].wrote = IF op = "write" /\ R.ret > 0
                              THEN @ \o SubSeq(buf, 1, R.ret) ELSE @,
                 ![p].got = IF op = "read" THEN @ \o R.data ELSE @,
                 ![p].eof = @ \/ (op = "read" /\ n > 0 /\ R.ret = 0),
                 ![p].zero = @ \/ (op = "read" /\ R.ret = 0)]
          /\ UNCHANGED fid

sys_Pipe(t) ==
  /\ task[t].pc = "idle"
  /\ \E p \in UserPipeIds :
       /\ pipe[p].st = "none"
       /\ pipe' = [pipe EXCEPT ![p] = [NoPipe EXCEPT !.st = "live",
                                        !.reader = TRUE, !.writer = TRUE]]
       /\ fid' = [fid EXCEPT ![p] = [r |-> TRUE, w |-> TRUE]]
  /\ last' = [NoCall EXCEPT !.t = t, !.op = "pipe"]
  /\ UNCHANGED <<task, hist, offered>>
  /\ UNCHANGED <<sockvars, procvars>>

sys_Write(t, p, buf) ==
  /\ task[t].pc = "idle"
  /\ fid[p].w
  /\ offered + Len(buf) <= MaxOffered
  /\ offered' = offered + Len(buf)
  /\ UNCHANGED <<sockvars, procvars>>
  /\ LET R == pipe_write(pipe, task, t, p, buf) IN
     StreamReturn(t, "write", Len(buf), buf, R, p)

sys_Read(t, p, n) ==
  /\ task[t].pc = "idle"
  /\ fid[p].r
  /\ UNCHANGED <<offered, sockvars, procvars>>
  /\ LET R == pipe_read(pipe, task, t, p, n) IN
     StreamReturn(t, "read", n, <<>>, R, p)

\* The scheduler runs a woken thread: it re-evaluates its wait loop.
ResumeWrite(t) ==
  /\ task[t].pc = "pipe_write"
  /\ task[t].s = 0
  /\ task[t].woken
  /\ UNCHANGED <<offered, sockvars, procvars>>
  /\ LET R == pipe_write_loop(pipe, task, t, task[t].p, task[t].buf) IN
     StreamReturn(t, "write", task[t].n, task[t].buf, R, task[t].p)

ResumeRead(t) ==
  /\ task[t].pc = "pipe_read"
  /\ task[t].s = 0
  /\ task[t].woken
  /\ UNCHANGED <<offered, sockvars, procvars>>
  /\ LET R == pipe_read_loop(pipe, task, t, task[t].p, task[t].n) IN
     StreamReturn(t, "read", task[t].n, <<>>, R, task[t].p)

\* Close of one descriptor of the pipe.
sys_Close(t, p, end) ==
  /\ task[t].pc = "idle"
  /\ fid[p][end]
  /\ fid' = [fid EXCEPT ![p][end] = FALSE]
  /\ LET C == FCB_decref(pipe, task, fid', p, end) IN
       /\ pipe' = C.pipe
       /\ task' = C.task
  /\ last' = [NoCall EXCEPT !.t = t, !.op = "close", !.ropen = pipe'[p].reader,
                            !.wopen = pipe'[p].writer]
  /\ UNCHANGED <<hist, offered, sockvars, procvars>>

(***************************************************************************)
(* Sockets.  A socket descriptor and its FCB are one with the socket's id; *)
(* sfid tells whether the descriptor is open.  st and frees of an SCB or a *)
(* connection request are bookkeeping of xmalloc / free; a freed block     *)
(* keeps the contents it had.  Pipe pointers are pipe ids, 0 for NULL.     *)
(***************************************************************************)
NoSCB ==
  [st |-> "none", frees |-> 0, refcount |-> 0, type |-> "UNBOUND", port |-> NOPORT,
   peer |-> 0, read_pipe |-> 0, write_pipe |-> 0, queue |-> <<>>]

NoReq == [st |-> "none", frees |-> 0, admitted |-> 0, peer |-> 0]

\* The kernel state a socket function works on; ret is its return value and data
\* the bytes it stored in the caller's buffer.
Sock ==
  [scb |-> scb, pm |-> PORT_MAP, req |-> req, pipe |-> pipe, task |-> task,
   fid |-> sfid, uaf |-> suaf, blocked |-> FALSE, ret |-> 0, data |-> <<>>]

SRet(S, ret) == [S EXCEPT !.ret = ret]

\* A use of a block after its free.
Touch(S, block, what) ==
  IF block.st = "freed" THEN [S EXCEPT !.uaf = @ \cup {what}] ELSE S

free_block(b) == [b EXCEPT !.st = "freed", !.frees = @ + 1]

\* kernel_broadcast(&listener_s.req_available)
broadcast_req_available(tasks, s) ==
  [t \in Tasks |->
     IF tasks[t].pc = "accept" /\ tasks[t].p = s
     THEN [tasks[t] EXCEPT !.woken = TRUE] ELSE tasks[t]]

\* Threads a kernel_signal(&listener_s.req_available) may wake: one of the
\* waiters, or nobody (0) when none waits.
SignalChoices(tasks, s) ==
  LET W == {t \in Tasks : tasks[t].pc = "accept" /\ tasks[t].p = s /\ ~tasks[t].woken}
  IN IF W = {} THEN {0} ELSE W

\* kernel_signal(&connect->connected_cv): the request has at most one waiter.
signal_connected(tasks, r) ==
  [t \in Tasks |->
     IF tasks[t].pc = "connect" /\ tasks[t].n = r
     THEN [tasks[t] EXCEPT !.woken = TRUE] ELSE tasks[t]]

\* Close the read pipe if it exists.
shut_read(S, s) ==
  IF S.scb[s].read_pipe # 0
  THEN LET C == pipe_reader_close(S.pipe, S.task, S.scb[s].read_pipe) IN
       [S EXCEPT !.pipe = C.pipe, !.task = C.task, !.scb[s].read_pipe = 0]
  ELSE S

\* Close the write pipe if it exists.
shut_write(S, s) ==
  IF S.scb[s].write_pipe # 0
  THEN LET C == pipe_writer_close(S.pipe, S.task, S.scb[s].write_pipe) IN
       [S EXCEPT !.pipe = C.pipe, !.task = C.task, !.scb[s].write_pipe = 0]
  ELSE S

\* refcount is unsigned: it wraps below 0 (modelled 8 bits wide).
socket_close(S, s) ==
  LET cb == S.scb[s]
      S0 == Touch(S, cb, "scb")
      S1 == IF cb.type = "LISTENER"
            THEN [S0 EXCEPT !.pm[cb.port] = 0,
                            !.task = broadcast_req_available(@, s)]
            ELSE IF cb.type = "PEER" THEN shut_write(shut_read(S0, s), s)
            ELSE S0
      S2 == [S1 EXCEPT !.scb[s].refcount = (@ - 1) % 256]
  IN SRet(IF S2.scb[s].refcount = 0 THEN [S2 EXCEPT !.scb[s] = free_block(@)] ELSE S2, 0)

HasFreeSock(S) == \E s \in SockIds : S.scb[s].st = "none"

NewSock(S) ==
  CHOOSE s \in SockIds :
    S.scb[s].st = "none" /\ \A u \in SockIds : u < s => S.scb[u].st # "none"

\* FCB_reserve fails when no descriptor is left.
sys_Socket(S, port) ==
  IF port > MAX_PORT \/ port < 0 THEN SRet(S, NOFILE)
  ELSE IF ~HasFreeSock(S) THEN SRet(S, NOFILE)
  ELSE LET s == NewSock(S) IN
       [S EXCEPT !.scb[s] = [NoSCB EXCEPT !.st = "live", !.port = port],
                 !.fid[s] = TRUE, !.ret = s]

\* Mutant: Listen does not look at PORT_MAP.
sys_Listen_rebind(S, s) ==
  LET cb == S.scb[s] IN
  IF ~S.fid[s] THEN SRet(S, -1)
  ELSE IF cb.port < 0 \/ cb.port > MAX_PORT THEN SRet(S, -1)
  ELSE IF cb.port = NOPORT THEN SRet(S, -1)
  ELSE IF cb.type # "UNBOUND" THEN SRet(S, -1)
  ELSE SRet([S EXCEPT !.pm[cb.port] = s, !.scb[s].type = "LISTENER",
                      !.scb[s].queue = <<>>], 0)

\* Mutant: Listen does not look at the type of the socket.
sys_Listen_anytype(S, s) ==
  LET cb == S.scb[s] IN
  IF ~S.fid[s] THEN SRet(S, -1)
  ELSE IF cb.port < 0 \/ cb.port > MAX_PORT THEN SRet(S, -1)
  ELSE IF S.pm[cb.port] # 0 THEN SRet(S, -1)
  ELSE IF cb.port = NOPORT THEN SRet(S, -1)
  ELSE SRet([S EXCEPT !.pm[cb.port] = s, !.scb[s].type = "LISTENER",
                      !.scb[s].queue = <<>>], 0)

sys_Listen(S, s) ==
  LET cb == S.scb[s] IN
  IF ~S.fid[s] THEN SRet(S, -1)
  ELSE IF cb.port < 0 \/ cb.port > MAX_PORT THEN SRet(S, -1)
  ELSE IF S.pm[cb.port] # 0 THEN SRet(S, -1)
  ELSE IF cb.port = NOPORT THEN SRet(S, -1)
  ELSE IF cb.type # "UNBOUND" THEN SRet(S, -1)
  ELSE SRet([S EXCEPT !.pm[cb.port] = s, !.scb[s].type = "LISTENER",
                      !.scb[s].queue = <<>>], 0)

NewPipes(S) ==
  CHOOSE pp \in SockPipeIds \X SockPipeIds :
    /\ pp[1] < pp[2]
    /\ S.pipe[pp[1]].st = "none" /\ S.pipe[pp[2]].st = "none"
    /\ \A q \in SockPipeIds : q < pp[2] /\ q # pp[1] => S.pipe[q].st # "none"

HasFreePipes(S) ==
  \E p1, p2 \in SockPipeIds : p1 < p2 /\ S.pipe[p1].st = "none" /\ S.pipe[p2].st = "none"

NewPipe == [NoPipe EXCEPT !.st = "live", !.reader = TRUE, !.writer = TRUE]

\* sys_Accept once a request is at hand: from the pop of the queue to the return.
\* g.unbound is what the type of a freed peer SCB is read as.
accept_request(S, s, g) ==
  LET r == Head(S.scb[s].queue)
      S1 == [S EXCEPT !.scb[s].queue = Tail(@)]
      cb1 == S1.req[r].peer
      S2 == Touch(S1, S1.scb[cb1], "scb")
      unbound == IF S1.scb[cb1].st = "freed" THEN g.unbound
                 ELSE S1.scb[cb1].type = "UNBOUND"
  IN IF ~unbound THEN SRet(S2, NOFILE)
     ELSE LET S3 == sys_Socket(S2, S2.scb[cb1].port)
              cb2 == S3.ret
          IN IF cb2 = NOFILE THEN S3
             ELSE LET pp == NewPipes(S3) IN
                  [S3 EXCEPT
                     !.pipe[pp[1]] = NewPipe,
                     !.pipe[pp[2]] = NewPipe,
                     !.scb[cb1] = [@ EXCEPT !.type = "PEER", !.peer = cb2,
                                            !.read_pipe = pp[1], !.write_pipe = pp[2]],
                     !.scb[cb2] = [@ EXCEPT !.type = "PEER", !.peer = cb1,
                                            !.read_pipe = pp[2], !.write_pipe = pp[1]],
                     !.req[r].admitted = 1,
                     !.task = signal_connected(@, r),
                     !.scb[s].refcount = (@ - 1) % 256,
                     !.ret = cb2]

\* sys_Accept from its wait loop on.  g.gone is how a freed listener SCB reads:
\* as closed (the call returns NOFILE) or as still waiting for a request.
accept_loop(S, t, s, g) ==
  LET cb == S.scb[s]
      S0 == Touch(S, cb, "scb")
  IN IF cb.st = "freed"
     THEN IF g.gone THEN SRet(S0, NOFILE)
          ELSE [S0 EXCEPT !.blocked = TRUE,
                          !.task = kernel_wait(@, t, "accept", s, <<>>, 0)]
     ELSE IF cb.queue = <<>> /\ cb.refcount # 0
     THEN IF S.pm[cb.port] = 0 THEN SRet(S, NOFILE)
          ELSE [S EXCEPT !.blocked = TRUE,
                         !.task = kernel_wait(@, t, "accept", s, <<>>, 0)]
     ELSE IF S.pm[cb.port] = 0 THEN SRet(S, NOFILE)
     ELSE accept_request(S, s, g)

sys_Accept(S, t, s, g) ==
  LET cb == S.scb[s] IN
  IF ~S.fid[s] THEN SRet(S, NOFILE)
  ELSE IF cb.port < 0 \/ cb.port > MAX_PORT THEN SRet(S, NOFILE)
  ELSE IF cb.type # "LISTENER" THEN SRet(S, NOFILE)
  ELSE accept_loop([S EXCEPT !.scb[s].refcount = (@ + 1) % 256], t, s, g)

HasFreeReq(S) == \E r \in 1 .. MaxReqs : S.req[r].st = "none"

NewReq(S) ==
  CHOOSE r \in ReqIds :
    S.req[r].st = "none" /\ \A u \in ReqIds : u < r => S.req[u].st # "none"

\* Mutant: the request is put at the front of the listener's queue.
sys_Connect_front(S, t, s, port, w) ==
  IF ~S.fid[s] THEN SRet(S, -1)
  ELSE IF S.scb[s].type # "UNBOUND" THEN SRet(S, -1)
  ELSE IF port < 0 \/ port > MAX_PORT THEN SRet(S, -1)
  ELSE IF S.pm[port] = 0 THEN SRet(S, -1)
  ELSE IF S.pm[port] \notin SockIds THEN SRet([S EXCEPT !.uaf = @ \cup {"wild"}], -1)
  ELSE LET listener == S.pm[port]
           r == NewReq(S)
           S1 == [S EXCEPT !.scb[s].refcount = (@ + 1) % 256,
                           !.req[r] = [NoReq EXCEPT !.st = "live", !.peer = s],
                           !.scb[listener].queue = <<r>> \o @]
           waiting == kernel_wait(S1.task, t, "connect", s, <<>>, r)
       IN [S1 EXCEPT !.blocked = TRUE,
                     !.task = IF w = 0 THEN waiting
                              ELSE [waiting EXCEPT ![w].woken = TRUE]]

\* sys_Connect up to its kernel_timedwait; w is the thread the signal wakes.
sys_Connect(S, t, s, port, w) ==
  IF ~S.fid[s] THEN SRet(S, -1)
  ELSE IF S.scb[s].type # "UNBOUND" THEN SRet(S, -1)
  ELSE IF port < 0 \/ port > MAX_PORT THEN SRet(S, -1)
  ELSE IF S.pm[port] = 0 THEN SRet(S, -1)
  ELSE IF S.pm[port] \notin SockIds THEN SRet([S EXCEPT !.uaf = @ \cup {"wild"}], -1)
  ELSE LET listener == S.pm[port]
           r == NewReq(S)
           S1 == [S EXCEPT !.scb[s].refcount = (@ + 1) % 256,
                           !.req[r] = [NoReq EXCEPT !.st = "live", !.peer = s],
                           !.scb[listener].queue = Append(@, r)]
           waiting == kernel_wait(S1.task, t, "connect", s, <<>>, r)
       IN [S1 EXCEPT !.blocked = TRUE,
                     !.task = IF w = 0 THEN waiting
                              ELSE [waiting EXCEPT ![w].woken = TRUE]]

\* sys_Connect after a wake-up by kernel_signal.  The request is read after its
\* free: g.admitted is what connect->admitted reads as; g.zero is whether the
\* refcount of a freed SCB reads as 0.
connect_wake(S, s, r, g) ==
  LET S1 == [S EXCEPT !.req[r] = free_block(@)]
      S2 == Touch(S1, S1.scb[s], "scb")
      zero == IF S1.scb[s].st = "freed" THEN g.zero ELSE S1.scb[s].refcount = 0
  IN IF zero THEN SRet([S2 EXCEPT !.scb[s] = free_block(@)], -1)
     ELSE SRet([S2 EXCEPT !.scb[s].refcount = (@ - 1) % 256,
                          !.uaf = @ \cup {"request"}],
               IF g.admitted THEN 0 ELSE -1)

sys_ShutDown(S, s, how) ==
  IF ~S.fid[s] THEN SRet(S, -1)
  ELSE IF S.scb[s].type # "PEER" THEN SRet(S, -1)
  ELSE IF how = "SHUTDOWN_READ" THEN SRet(shut_read(S, s), 0)
  ELSE IF how = "SHUTDOWN_WRITE" THEN SRet(shut_write(S, s), 0)
  ELSE IF how = "SHUTDOWN_BOTH" THEN SRet(shut_write(shut_read(S, s), s), 0)
  ELSE SRet(S, -1)

\* socket_read and socket_write hand the call to a pipe of a peer socket.
socket_read(S, t, s, n) ==
  LET cb == S.scb[s] IN
  IF cb.read_pipe = 0 \/ cb.type # "PEER" THEN SRet(S, -1)
  ELSE LET R == pipe_read(S.pipe, S.task, t, cb.read_pipe, n) IN
       [S EXCEPT !.pipe = R.pipe, !.task = R.task, !.blocked = R.blocked,
                 !.ret = R.ret, !.data = R.data]

socket_write(S, t, s, buf) ==
  LET cb == S.scb[s] IN
  IF cb.write_pipe = 0 \/ cb.type # "PEER" THEN SRet(S, -1)
  ELSE LET R == pipe_write(S.pipe, S.task, t, cb.write_pipe, buf) IN
       [S EXCEPT !.pipe = R.pipe, !.task = R.task, !.blocked = R.blocked,
                 !.ret = R.ret, !.data = R.data]

\* pipe_read or pipe_write of a socket after a wake-up.  ShutDown may have freed
\* the pipe meanwhile: g is whether the freed block then reads as a pipe to wait
\* on again.
socket_resume(S, t, g) ==
  LET tk == S.task[t]
      S0 == Touch(S, S.pipe[tk.p], "pipe")
  IN IF S.pipe[tk.p].st = "freed" /\ g
     THEN [S0 EXCEPT !.blocked = TRUE,
                     !.task = kernel_wait(@, t, tk.pc, tk.p, tk.buf, tk.n)]
     ELSE LET R == IF tk.pc = "pipe_read"
                   THEN pipe_read_loop(S.pipe, S.task, t, tk.p, tk.n)
                   ELSE pipe_write_loop(S.pipe, S.task, t, tk.p, tk.buf) IN
          [S0 EXCEPT !.pipe = R.pipe, !.task = R.task, !.blocked = R.blocked,
                     !.ret = R.ret, !.data = R.data]

\* A Read or Write call holds a reference on the socket's FCB while it runs.
SockInFlight(tasks, s) == \E t \in Tasks : tasks[t].s = s

\* FCB_decref of a socket's FCB: socket_close runs when the descriptor is closed
\* and no Read or Write is inside.
SockDecref(S, s) ==
  IF ~S.fid[s] /\ ~SockInFlight(S.task, s)
  THEN [socket_close(S, s) EXCEPT !.ret = S.ret]
  ELSE S

(***************************************************************************)
(* Socket system calls.                                                    *)
(***************************************************************************)
SockCommit(S) ==
  /\ scb' = S.scb
  /\ PORT_MAP' = S.pm
  /\ req' = S.req
  /\ pipe' = S.pipe
  /\ sfid' = S.fid
  /\ suaf' = S.uaf

\* The call blocks, or it returns and the thread is back in user code.
SockReturn(t, S) ==
  /\ SockCommit(S)
  /\ task' = IF S.blocked THEN S.task ELSE [S.task EXCEPT ![t] = IdleTask]
  /\ last' = NoCall
  /\ UNCHANGED <<fid, hist, offered, procvars>>

\* What the reads of freed memory in sys_Accept and in sys_Connect may yield.
AcceptGarbage == [unbound : BOOLEAN, gone : BOOLEAN]
ConnectGarbage == [zero : BOOLEAN, admitted : BOOLEAN]

Socket(t, port) ==
  /\ task[t].pc = "idle"
  /\ SockReturn(t, sys_Socket(Sock, port))

Listen(t, s) ==
  /\ task[t].pc = "idle"
  /\ SockReturn(t, sys_Listen(Sock, s))

Accept(t, s, g) ==
  /\ task[t].pc = "idle"
  /\ HasFreePipes(Sock)
  /\ SockReturn(t, sys_Accept(Sock, t, s, g))

AcceptResume(t, g) ==
  /\ task[t].pc = "accept"
  /\ task[t].woken
  /\ HasFreePipes(Sock)
  /\ SockReturn(t, accept_loop(Sock, t, task[t].p, g))

ConnectCall(t, s, port) ==
  /\ task[t].pc = "idle"
  /\ \E w \in (IF sfid[s] /\ PORT_MAP[port] # 0
               THEN SignalChoices(task, PORT_MAP[port]) ELSE {0}) :
       SockReturn(t, sys_Connect(Sock, t, s, port, w))

Connect(t, s, port) ==
  /\ HasFreeReq(Sock)
  /\ ConnectCall(t, s, port)

\* The same call while any of the MaxQueued requests is left.
ConnectQueued(t, s, port) ==
  /\ \E r \in ReqIds : req[r].st = "none"
  /\ ConnectCall(t, s, port)

ConnectResume(t, g) ==
  /\ task[t].pc = "connect"
  /\ task[t].woken
  /\ SockReturn(t, connect_wake(Sock, task[t].p, task[t].n, g))

\* kernel_timedwait returns 0: the timeout has expired.
ConnectTimeout(t) ==
  /\ task[t].pc = "connect"
  /\ ~task[t].woken
  /\ SockReturn(t, SRet(Sock, -1))

\* The word behind PORT_MAP belongs to another object of the kernel, whose owner
\* stores in it what it likes: NULL, or something that points to no SCB.
Scribble(v) ==
  /\ PORT_MAP[MAX_PORT] # v
  /\ PORT_MAP' = [PORT_MAP EXCEPT ![MAX_PORT] = v]
  /\ last' = NoCall
  /\ UNCHANGED <<scb, req, sfid, suaf, pipe, fid, task, hist, offered, procvars>>

ShutDown(t, s, how) ==
  /\ task[t].pc = "idle"
  /\ SockReturn(t, sys_ShutDown(Sock, s, how))

\* Close of the socket's descriptor: the FCB goes and socket_close runs.
SockClose(t, s) ==
  /\ task[t].pc = "idle"
  /\ sfid[s]
  /\ SockReturn(t, SRet(SockDecref([Sock EXCEPT !.fid[s] = FALSE], s), 0))

\* The end of a Read or Write on socket s: block, or return and drop the FCB
\* reference.  hist keeps the bytes that went through pipe p.
SockIoReturn(t, op, s, p, n, buf, S) ==
  IF S.blocked
  THEN /\ SockCommit(S)
       /\ task' = S.task
       /\ last' = NoCall
       /\ UNCHANGED <<fid, hist, procvars>>
  ELSE LET C == SockDecref([S EXCEPT !.task[t] = IdleTask], s) IN
       /\ SockCommit(C)
       /\ task' = C.task
       /\ last' = NoCall
       /\ hist' = IF p = 0 THEN hist
                  ELSE [hist EXCEPT
                          ![p].wrote = IF op = "swrite" /\ S.ret > 0
                                       THEN @ \o SubSeq(buf, 1, S.ret) ELSE @,
                          ![p].got = IF op = "sread" THEN @ \o S.data ELSE @]
       /\ UNCHANGED <<fid, procvars>>

SockRead(t, s, n) ==
  /\ task[t].pc = "idle"
  /\ sfid[s]
  /\ UNCHANGED offered
  /\ LET p == IF scb[s].type = "PEER" THEN scb[s].read_pipe ELSE 0 IN
     SockIoReturn(t, "sread", s, p, n, <<>>,
                  socket_read([Sock EXCEPT !.task[t].s = s], t, s, n))

SockWrite(t, s, buf) ==
  /\ task[t].pc = "idle"
  /\ sfid[s]
  /\ LET p == IF scb[s].type = "PEER" THEN scb[s].write_pipe ELSE 0 IN
     /\ offered + Len(buf) <= MaxOffered
     /\ offered' = IF p = 0 THEN offered ELSE offered + Len(buf)
     /\ SockIoReturn(t, "swrite", s, p, Len(buf), buf,
                     socket_write([Sock EXCEPT !.task[t].s = s], t, s, buf))

SockResumeRead(t, g) ==
  /\ task[t].pc = "pipe_read"
  /\ task[t].s # 0
  /\ task[t].woken
  /\ UNCHANGED offered
  /\ SockIoReturn(t, "sread", task[t].s, task[t].p, task[t].n, <<>>,
                  socket_resume(Sock, t, g))

SockResumeWrite(t, g) ==
  /\ task[t].pc = "pipe_write"
  /\ task[t].s # 0
  /\ task[t].woken
  /\ UNCHANGED offered
  /\ SockIoReturn(t, "swrite", task[t].s, task[t].p, task[t].n, task[t].buf,
                  socket_resume(Sock, t, g))

SockInit ==
  /\ scb = [s \in SockIds |-> NoSCB]
  /\ PORT_MAP = [p \in PortArgs |-> 0]
  /\ req = [r \in ReqIds |-> NoReq]
  /\ sfid = [s \in SockIds |-> FALSE]
  /\ suaf = {}

(***************************************************************************)
(* Processes and threads.  PCBs live in the table PT; a free PCB is linked *)
(* into pcb_freelist through its parent field.  The intrusive lists        *)
(* children_list, exited_list and ptcb_list are sequences, front first.    *)
(***************************************************************************)
\* main_task: whether the task of the process is not NULL.
FreePCB(next) ==
  [pstate |-> "FREE", parent |-> next, exitval |-> 0, children_list |-> <<>>,
   exited_list |-> <<>>, ptcb_list |-> <<>>, thread_count |-> 0,
   main_task |-> FALSE]

\* st and frees are bookkeeping of xmalloc / free.
NoPTCB ==
  [st |-> "none", exitval |-> 0, exited |-> 0, detached |-> 0, refcount |-> 0,
   frees |-> 0]

\* st: "none" (never spawned), "run" (in user code), the blocking call the thread is
\* inside ("join", "wait_any", "wait_child", "exit_wait"), or "exited".
NoThread ==
  [st |-> "none", owner |-> NOPROC, woken |-> FALSE, tid |-> 0, out |-> FALSE,
   cpid |-> NOPROC, val |-> 0, waited |-> FALSE]

\* For the exit of a process (op = "exit", arg = its pid): kids, the children that
\* were alive, had, whether it had exited children, and bcast.  For a WaitChild:
\* older, the zombie children of the caller that became ZOMBIE before the one it
\* reaped, and newer, those that exited as its own children after it (all of
\* them, when the one it reaped was inherited from an exited child).
NoThreadCall ==
  [t |-> 0, op |-> "none", arg |-> 0, ret |-> 0, out |-> {}, entered |-> FALSE,
   want |-> FALSE, waited |-> FALSE, det |-> FALSE, exit |-> {},
   kids |-> {}, had |-> FALSE, bcast |-> {}, older |-> {}, newer |-> {}]

\* zorder: the zombies, oldest first; inherited: the zombies handed to init by
\* their exiting parent.
NoGhost ==
  [texit |-> [k \in Tids |-> {}], detached_ok |-> {},
   joined |-> [k \in Tids |-> {}], called_exit |-> {},
   zorder |-> <<>>, inherited |-> {}]

RECURSIVE Without(_, _)
Without(s, x) ==
  IF s = <<>> THEN <<>>
  ELSE IF Head(s) = x THEN Without(Tail(s), x)
  ELSE <<Head(s)>> \o Without(Tail(s), x)

InList(s, x) == \E i \in 1 .. Len(s) : s[i] = x

\* rlist_remove of an intrusive node: it leaves whatever list it is in.
rlist_remove(PTs, field, x) ==
  [q \in Pids |-> [PTs[q] EXCEPT ![field] = Without(@, x)]]

(***************************************************************************)
(* The kernel state a function works on, and what it hands back: blocked   *)
(* (it is inside kernel_wait), ret (its return value), out (what it stored *)
(* through its out-parameter: {} or {v}), want (the out-parameter is not   *)
(* NULL), entered (ThreadJoin took its reference), pcb (acquire_PCB's      *)
(* result), bcast (the processes whose child_exit the call has broadcast). *)
(***************************************************************************)
Kernel ==
  [PT |-> PT, fl |-> pcb_freelist, cnt |-> process_count, thr |-> thr, ptcb |-> ptcb,
   crash |-> crash, blocked |-> FALSE, ret |-> 0, out |-> {}, entered |-> FALSE,
   want |-> FALSE, pcb |-> NOPROC, bcast |-> {}]

Ret(K, ret, out) == [K EXCEPT !.ret = ret, !.out = out]

\* kernel_wait on the condition variable of the call the thread is inside.
thread_wait(K, t, st, tid, out, cpid, val) ==
  [K EXCEPT !.blocked = TRUE,
            !.thr[t] = [@ EXCEPT !.st = st, !.woken = FALSE, !.tid = tid, !.out = out,
                                 !.cpid = cpid, !.val = val, !.waited = TRUE]]

\* kernel_broadcast(&ptcb->exit_cv)
broadcast_exit_cv(threads, k) ==
  [t \in Tids |->
     IF threads[t].st = "join" /\ threads[t].tid = k
     THEN [threads[t] EXCEPT !.woken = TRUE] ELSE threads[t]]

\* kernel_broadcast(&pcb->child_exit)
broadcast_child_exit(threads, p) ==
  [t \in Tids |->
     IF threads[t].owner = p /\ threads[t].st \in {"wait_any", "wait_child", "exit_wait"}
     THEN [threads[t] EXCEPT !.woken = TRUE] ELSE threads[t]]

HasFreeTid(threads) == \E t \in Tids : threads[t].st = "none"

\* spawn_thread: the next thread that was never used.
spawn_thread(threads) ==
  CHOOSE t \in Tids :
    threads[t].st = "none" /\ \A u \in Tids : u < t => threads[u].st # "none"

aquire_PTCB(K, t, p) ==
  [K EXCEPT !.ptcb[t] = [NoPTCB EXCEPT !.st = "live"],
            !.thr[t] = [NoThread EXCEPT !.st = "run", !.owner = p],
            !.PT[p].ptcb_list = Append(@, t)]

sys_CreateThread(K, t) ==
  LET p == K.thr[t].owner
      new_thread == spawn_thread(K.thr)
      K1 == aquire_PTCB(K, new_thread, p)
  IN [K1 EXCEPT !.PT[p].thread_count = @ + 1, !.ret = new_thread]

\* free(ptcb)
free_ptcb(pt) == [pt EXCEPT !.st = "freed", !.frees = @ + 1]

\* Mutant: the joiner frees the PTCB whatever its reference count.
join_frees_always(pt) == TRUE

\* ThreadJoin frees the PTCB when no reference remains.
join_frees(pt) == pt.refcount = 0

\* sys_ThreadJoin from its wait loop on: run at entry and after every wake-up.
join_loop(K, t, tid, out) ==
  LET pt == K.ptcb[tid]
      K0 == IF pt.st = "freed" THEN [K EXCEPT !.crash.uaf = TRUE, !.want = out]
            ELSE [K EXCEPT !.want = out]
  IN IF pt.exited # 1 /\ pt.detached # 1
     THEN thread_wait(K0, t, "join", tid, out, NOPROC, 0)
     ELSE LET K1 == [K0 EXCEPT !.ptcb[tid].refcount = @ - 1] IN
          IF pt.detached = 1 THEN Ret(K1, -1, {})
          ELSE LET K2 == Ret(K1, 0, IF out THEN {pt.exitval} ELSE {}) IN
               IF join_frees(K2.ptcb[tid])
               THEN [K2 EXCEPT !.PT = rlist_remove(@, "ptcb_list", tid),
                               !.ptcb[tid] = free_ptcb(@)]
               ELSE K2

\* Mutant: the joiner takes no reference before its wait.
sys_ThreadJoin_noref(K, t, tid, out) ==
  IF ~InList(K.PT[K.thr[t].owner].ptcb_list, tid) THEN Ret(K, -1, {})
  ELSE IF tid = t THEN Ret(K, -1, {})
  ELSE IF K.ptcb[tid].detached = 1 THEN Ret(K, -1, {})
  ELSE join_loop([K EXCEPT !.entered = TRUE], t, tid, out)

\* Mutant: a thread may join itself.
sys_ThreadJoin_self(K, t, tid, out) ==
  IF ~InList(K.PT[K.thr[t].owner].ptcb_list, tid) THEN Ret(K, -1, {})
  ELSE IF K.ptcb[tid].detached = 1 THEN Ret(K, -1, {})
  ELSE join_loop([K EXCEPT !.ptcb[tid].refcount = @ + 1, !.entered = TRUE], t, tid, out)

sys_ThreadJoin(K, t, tid, out) ==
  IF ~InList(K.PT[K.thr[t].owner].ptcb_list, tid) THEN Ret(K, -1, {})
  ELSE IF tid = t THEN Ret(K, -1, {})
  ELSE IF K.ptcb[tid].detached = 1 THEN Ret(K, -1, {})
  ELSE join_loop([K EXCEPT !.ptcb[tid].refcount = @ + 1, !.entered = TRUE], t, tid, out)

\* Mutant: the detach does not wake the joiners.
sys_ThreadDetach_silent(K, t, tid) ==
  IF ~InList(K.PT[K.thr[t].owner].ptcb_list, tid) THEN Ret(K, -1, {})
  ELSE IF K.ptcb[tid].exited = 1 THEN Ret(K, -1, {})
  ELSE Ret([K EXCEPT !.ptcb[tid].detached = 1], 0, {})

sys_ThreadDetach(K, t, tid) ==
  IF ~InList(K.PT[K.thr[t].owner].ptcb_list, tid) THEN Ret(K, -1, {})
  ELSE IF K.ptcb[tid].exited = 1 THEN Ret(K, -1, {})
  ELSE Ret([K EXCEPT !.ptcb[tid].detached = 1,
                     !.thr = broadcast_exit_cv(@, tid)], 0, {})

\* Mutant: the thread is marked exited but its exit value is not stored.
exit_ptcb_novalue(pt, exitval) == [pt EXCEPT !.exited = 1]

\* sys_ThreadExit on its own PTCB.
exit_ptcb(pt, exitval) == [pt EXCEPT !.exitval = exitval, !.exited = 1]

\* Mutant: the children move to init's list but keep their parent.
RECURSIVE reparent_keep_parent(_, _)
reparent_keep_parent(PTs, p) ==
  IF PTs[p].children_list = <<>> THEN PTs
  ELSE LET child == Head(PTs[p].children_list) IN
       reparent_keep_parent([PTs EXCEPT ![p].children_list = Tail(@),
                                        ![1].children_list = <<child>> \o @], p)

\* Reparent the children of p to init, one by one from the front.
RECURSIVE reparent(_, _)
reparent(PTs, p) ==
  IF PTs[p].children_list = <<>> THEN PTs
  ELSE LET child == Head(PTs[p].children_list) IN
       reparent([PTs EXCEPT ![p].children_list = Tail(@),
                            ![child].parent = 1,
                            ![1].children_list = <<child>> \o @], p)

\* rlist_append(&initpcb->exited_list, &curproc->exited_list) and the broadcast.
hand_exited(K, p) ==
  IF K.PT[p].exited_list # <<>>
  THEN [K EXCEPT !.PT[1].exited_list = @ \o K.PT[p].exited_list,
                 !.PT[p].exited_list = <<>>,
                 !.thr = broadcast_child_exit(@, 1),
                 !.bcast = @ \cup {1}]
  ELSE K

\* Mutant: the exiting process goes to the back of its parent's exited list.
notify_parent_back(K, p) ==
  LET parent == K.PT[p].parent IN
  IF parent = NOPROC THEN [K EXCEPT !.crash.panic = TRUE]
  ELSE [K EXCEPT !.PT[parent].exited_list = @ \o <<p>>,
                 !.thr = broadcast_child_exit(@, parent),
                 !.bcast = @ \cup {parent}]

\* Put me into my parent's exited list.
notify_parent(K, p) ==
  LET parent == K.PT[p].parent IN
  IF parent = NOPROC THEN [K EXCEPT !.crash.panic = TRUE]
  ELSE [K EXCEPT !.PT[parent].exited_list = <<p>> \o @,
                 !.thr = broadcast_child_exit(@, parent),
                 !.bcast = @ \cup {parent}]

RECURSIVE free_ptcbs(_, _)
free_ptcbs(ptcbs, list) ==
  IF list = <<>> THEN ptcbs
  ELSE free_ptcbs([ptcbs EXCEPT ![Head(list)] = free_ptcb(@)], Tail(list))

\* The last thread of process p has exited.
process_cleanup(K, p) ==
  LET K1 == IF p # 1
            THEN notify_parent(hand_exited([K EXCEPT !.PT = reparent(@, p)], p), p)
            ELSE K
  IN IF K1.PT[p].children_list # <<>> \/ K1.PT[p].exited_list # <<>>
     THEN [K1 EXCEPT !.crash.panic = TRUE]
     ELSE [K1 EXCEPT !.ptcb = free_ptcbs(@, K1.PT[p].ptcb_list),
                     !.PT[p].ptcb_list = <<>>,
                     !.PT[p].pstate = "ZOMBIE"]

sys_ThreadExit(K, t, exitval) ==
  LET p == K.thr[t].owner
      K1 == [K EXCEPT !.ptcb[t] = exit_ptcb(@, exitval),
                      !.thr = broadcast_exit_cv(@, t),
                      !.PT[p].thread_count = @ - 1]
      K2 == IF K1.PT[p].thread_count = 0 THEN process_cleanup(K1, p) ELSE K1
  IN [K2 EXCEPT !.thr[t] = [NoThread EXCEPT !.st = "exited", !.owner = p]]

(***************************************************************************)
(* The process table.                                                      *)
(***************************************************************************)
acquire_PCB(K) ==
  IF K.fl # NOPROC
  THEN [K EXCEPT !.PT[K.fl].pstate = "ALIVE", !.fl = K.PT[K.fl].parent,
                 !.cnt = @ + 1, !.pcb = K.fl]
  ELSE [K EXCEPT !.pcb = NOPROC]

\* process_count is unsigned: it wraps below 0 (modelled 8 bits wide).
release_PCB(K, p) ==
  [K EXCEPT !.PT[p].pstate = "FREE", !.PT[p].parent = K.fl, !.fl = p,
            !.cnt = (@ - 1) % 256]

\* Mutant: the main thread is not counted.
sys_Exec_nocount(K, curproc, call) ==
  LET A == acquire_PCB(K)
      newproc == A.pcb
  IN IF newproc = NOPROC THEN Ret(A, NOPROC, {})
     ELSE LET B == IF newproc <= 1
                   THEN [A EXCEPT !.PT[newproc].parent = NOPROC]
                   ELSE [A EXCEPT !.PT[newproc].parent = curproc,
                                  !.PT[curproc].children_list = <<newproc>> \o @]
              M == [B EXCEPT !.PT[newproc].main_task = call]
          IN IF call
             THEN Ret(aquire_PTCB(M, spawn_thread(M.thr), newproc), newproc, {})
             ELSE Ret(M, newproc, {})

\* sys_Exec: curproc is the caller's process, call whether the task is not NULL.
\* A process without a task gets no thread.
sys_Exec(K, curproc, call) ==
  LET A == acquire_PCB(K)
      newproc == A.pcb
  IN IF newproc = NOPROC THEN Ret(A, NOPROC, {})
     ELSE LET B == IF newproc <= 1
                   THEN [A EXCEPT !.PT[newproc].parent = NOPROC]
                   ELSE [A EXCEPT !.PT[newproc].parent = curproc,
                                  !.PT[curproc].children_list = <<newproc>> \o @]
              M == [B EXCEPT !.PT[newproc].main_task = call]
          IN IF call
             THEN LET C == aquire_PTCB(M, spawn_thread(M.thr), newproc) IN
                  Ret([C EXCEPT !.PT[newproc].thread_count = @ + 1], newproc, {})
             ELSE Ret(M, newproc, {})

cleanup_zombie(K, p, status) ==
  LET K1 == [K EXCEPT !.out = IF status THEN {K.PT[p].exitval} ELSE {},
                      !.PT = rlist_remove(rlist_remove(@, "children_list", p),
                                          "exited_list", p)]
  IN release_PCB(K1, p)

\* wait_for_specific_child from its wait loop on.
wait_specific_loop(K, t, cpid, status) ==
  IF K.PT[cpid].pstate = "ALIVE"
  THEN thread_wait(K, t, "wait_child", 0, status, cpid, 0)
  ELSE [cleanup_zombie(K, cpid, status) EXCEPT !.ret = cpid]

wait_for_specific_child(K, t, cpid, status) ==
  IF cpid < 0 \/ cpid >= MAX_PROC THEN Ret(K, NOPROC, {})
  ELSE IF K.PT[cpid].pstate = "FREE" \/ K.PT[cpid].parent # K.thr[t].owner
  THEN Ret(K, NOPROC, {})
  ELSE wait_specific_loop(K, t, cpid, status)

\* st is the call the thread blocks in: "wait_any", or "exit_wait" inside sys_Exit.
wait_for_any_child(K, t, st, status, val) ==
  LET parent == K.thr[t].owner IN
  IF K.PT[parent].children_list = <<>> THEN Ret(K, NOPROC, {})
  ELSE IF K.PT[parent].exited_list # <<>>
  THEN LET child == Head(K.PT[parent].exited_list) IN
       IF K.PT[child].pstate # "ZOMBIE" THEN [K EXCEPT !.crash.panic = TRUE]
       ELSE [cleanup_zombie(K, child, status) EXCEPT !.ret = child]
  ELSE thread_wait(K, t, st, 0, status, NOPROC, val)

sys_WaitChild(K, t, cpid, status) ==
  IF cpid # NOPROC THEN wait_for_specific_child(K, t, cpid, status)
  ELSE wait_for_any_child(K, t, "wait_any", status, 0)

\* sys_Exit after curproc->exitval is set: init first reaps all its children.
RECURSIVE exit_loop(_, _, _)
exit_loop(K, t, exitval) ==
  IF K.thr[t].owner = 1
  THEN LET W == wait_for_any_child(K, t, "exit_wait", FALSE, exitval) IN
       IF W.blocked \/ W.crash.panic THEN W
       ELSE IF W.ret # NOPROC THEN exit_loop(W, t, exitval)
       ELSE sys_ThreadExit(W, t, exitval)
  ELSE sys_ThreadExit(K, t, exitval)

sys_Exit(K, t, exitval) ==
  exit_loop([K EXCEPT !.PT[K.thr[t].owner].exitval = exitval], t, exitval)

\* initialize_processes: every PCB free, then the idle process takes pid 0.
initialize_processes ==
  LET PT0 == [p \in Pids |-> FreePCB(IF p + 1 < MAX_PROC THEN p + 1 ELSE NOPROC)]
      K0 == [PT |-> PT0, fl |-> 0, cnt |-> 0, pcb |-> NOPROC]
      A == acquire_PCB(K0)
  IN [A EXCEPT !.PT[0].parent = NOPROC]

(***************************************************************************)
(* System calls of threads and processes.  A call made by thread t either  *)
(* blocks (the thread stays inside it), returns (the thread is back in     *)
(* user code and tlast records the call), or ends the thread.              *)
(***************************************************************************)
Commit(K) ==
  /\ PT' = K.PT
  /\ pcb_freelist' = K.fl
  /\ process_count' = K.cnt
  /\ ptcb' = K.ptcb
  /\ crash' = K.crash

Running(t) == ~crash.panic /\ thr[t].st = "run"

Woken(t, st) == ~crash.panic /\ thr[t].st = st /\ thr[t].woken

ListSet(s) == {s[i] : i \in 1 .. Len(s)}

Position(s, x) == CHOOSE i \in 1 .. Len(s) : s[i] = x

\* The zombies after a call: those it did not reap, then the process it ended.
Zombies(K) ==
  LET Remains(c) == K.PT[c].pstate = "ZOMBIE"
      new == {c \in Pids : K.PT[c].pstate = "ZOMBIE" /\ PT[c].pstate # "ZOMBIE"}
  IN SelectSeq(ghost.zorder, Remains)
       \o (IF new = {} THEN <<>> ELSE <<CHOOSE c \in new : TRUE>>)

\* The zombies that init has got from an exiting process.
Inherited(K) ==
  {c \in ghost.inherited : K.PT[c].pstate = "ZOMBIE"}
    \cup UNION {ListSet(PT[p].exited_list) :
                 p \in {q \in Pids \ {1} : K.PT[q].pstate = "ZOMBIE"
                                            /\ PT[q].pstate = "ALIVE"}}

ThreadCallRecord(t, op, arg, K) ==
  LET any == op = "wait" /\ arg = NOPROC /\ K.ret \in Pids
      Z == ListSet(PT[thr[t].owner].exited_list)
      D == Z \ ghost.inherited
      at(c) == Position(ghost.zorder, c)
  IN [NoThreadCall EXCEPT
        !.t = t, !.op = op, !.arg = arg, !.ret = K.ret, !.out = K.out,
        !.entered = K.entered, !.want = K.want, !.waited = thr[t].waited,
        !.det = op = "join" /\ arg \in ghost.detached_ok,
        !.exit = IF op = "join" THEN ghost.texit[arg] ELSE {},
        !.older = IF any THEN {c \in Z : at(c) < at(K.ret)} ELSE {},
        !.newer = IF ~any THEN {}
                  ELSE IF K.ret \in ghost.inherited THEN D
                  ELSE {c \in D : at(c) > at(K.ret)}]

\* What the exit of the last thread of process p did.
ExitRecord(t, p, K) ==
  [NoThreadCall EXCEPT
     !.t = t, !.op = "exit", !.arg = p,
     !.kids = {c \in ListSet(PT[p].children_list) : PT[c].pstate = "ALIVE"},
     !.had = PT[p].exited_list # <<>>,
     !.bcast = K.bcast]

ThreadReturn(t, op, arg, K) ==
  /\ Commit(K)
  /\ IF K.blocked \/ K.crash.panic
     THEN /\ thr' = K.thr
          /\ tlast' = NoThreadCall
          /\ UNCHANGED ghost
     ELSE /\ thr' = [K.thr EXCEPT ![t] = [NoThread EXCEPT !.st = "run",
                                                          !.owner = thr[t].owner]]
          /\ tlast' = ThreadCallRecord(t, op, arg, K)
          /\ ghost' = [ghost EXCEPT
                 !.detached_ok = IF op = "detach" /\ K.ret = 0 THEN @ \cup {arg} ELSE @,
                 !.joined = IF op = "join" /\ K.ret = 0
                            THEN [@ EXCEPT ![arg] = @ \cup {t}] ELSE @,
                 !.called_exit = IF op = "exec" /\ K.ret # NOPROC
                                 THEN @ \ {K.ret} ELSE @,
                 !.zorder = Zombies(K),
                 !.inherited = Inherited(K)]
  /\ UNCHANGED ipcvars

\* The end of a call that does not return: the thread has exited, or waits in Exit.
ThreadGone(t, exitval, K, exit_called) ==
  /\ Commit(K)
  /\ thr' = K.thr
  /\ ghost' = [ghost EXCEPT
         !.texit = IF K.thr[t].st = "exited" THEN [@ EXCEPT ![t] = {exitval}] ELSE @,
         !.called_exit = IF exit_called THEN @ \cup {thr[t].owner} ELSE @,
         !.zorder = Zombies(K),
         !.inherited = Inherited(K)]
  /\ tlast' = IF PT[thr[t].owner].pstate = "ALIVE"
                  /\ K.PT[thr[t].owner].pstate = "ZOMBIE"
               THEN ExitRecord(t, thr[t].owner, K) ELSE NoThreadCall
  /\ UNCHANGED ipcvars

\* The boot code starts init: Exec from the idle process.
Boot ==
  /\ ~crash.panic
  /\ PT[1].pstate = "FREE"
  /\ LET K == sys_Exec(Kernel, 0, TRUE) IN Commit(K) /\ thr' = K.thr
  /\ tlast' = NoThreadCall
  /\ UNCHANGED <<ghost, ipcvars>>

Exec(t, call) ==
  /\ Running(t)
  /\ HasFreeTid(thr)
  /\ ThreadReturn(t, "exec", 0, sys_Exec(Kernel, thr[t].owner, call))

CreateThread(t) ==
  /\ Running(t)
  /\ HasFreeTid(thr)
  /\ ThreadReturn(t, "create", 0, sys_CreateThread(Kernel, t))

ThreadJoin(t, tid, out) ==
  /\ Running(t)
  /\ ThreadReturn(t, "join", tid, sys_ThreadJoin(Kernel, t, tid, out))

JoinResume(t) ==
  /\ Woken(t, "join")
  /\ ThreadReturn(t, "join", thr[t].tid,
                  join_loop([Kernel EXCEPT !.entered = TRUE], t, thr[t].tid, thr[t].out))

ThreadDetach(t, tid) ==
  /\ Running(t)
  /\ ThreadReturn(t, "detach", tid, sys_ThreadDetach(Kernel, t, tid))

ThreadExit(t, exitval) ==
  /\ Running(t)
  /\ ThreadGone(t, exitval, sys_ThreadExit(Kernel, t, exitval), FALSE)

WaitChild(t, cpid, status) ==
  /\ Running(t)
  /\ ThreadReturn(t, "wait", cpid, sys_WaitChild(Kernel, t, cpid, status))

WaitResume(t) ==
  /\ \/ Woken(t, "wait_any")
     \/ Woken(t, "wait_child")
  /\ ThreadReturn(t, "wait", thr[t].cpid,
                  IF thr[t].st = "wait_any"
                  THEN wait_for_any_child(Kernel, t, "wait_any", thr[t].out, 0)
                  ELSE wait_specific_loop(Kernel, t, thr[t].cpid, thr[t].out))

Exit(t, exitval) ==
  /\ Running(t)
  /\ ThreadGone(t, exitval, sys_Exit(Kernel, t, exitval), TRUE)

ExitResume(t) ==
  /\ Woken(t, "exit_wait")
  /\ ThreadGone(t, thr[t].val, exit_loop(Kernel, t, thr[t].val), FALSE)

ProcInit ==
  /\ PT = initialize_processes.PT
  /\ pcb_freelist = initialize_processes.fl
  /\ process_count = initialize_processes.cnt
  /\ thr = [t \in Tids |-> NoThread]
  /\ ptcb = [t \in Tids |-> NoPTCB]
  /\ crash = [panic |-> FALSE, uaf |-> FALSE]
  /\ tlast = NoThreadCall
  /\ ghost = NoGhost

IpcInit ==
  /\ pipe = [p \in PipeIds |-> NoPipe]
  /\ fid = [p \in PipeIds |-> [r |-> FALSE, w |-> FALSE]]
  /\ task = [t \in Tasks |-> IdleTask]
  /\ last = NoCall
  /\ hist = [p \in PipeIds |-> NoHist]
  /\ offered = 0

Init == IpcInit /\ SockInit /\ ProcInit

PipeNext ==
  \E t \in Tasks :
    \/ sys_Pipe(t)
    \/ \E p \in UserPipeIds, buf \in Buffers : sys_Write(t, p, buf)
    \/ \E p \in UserPipeIds, n \in 0 .. MaxLen : sys_Read(t, p, n)
    \/ \E p \in UserPipeIds, end \in {"r", "w"} : sys_Close(t, p, end)
    \/ ResumeWrite(t)
    \/ ResumeRead(t)

SpecPipe == Init /\ [][PipeNext]_vars

\* The scheduler eventually runs every thread that has been woken.
PipeNextFair ==
  \E t \in Tasks :
    \/ sys_Pipe(t)
    \/ \E p \in UserPipeIds, buf \in {b \in Buffers : \A i \in 1 .. Len(b) : b[i] = 0} :
         sys_Write(t, p, buf)
    \/ \E p \in UserPipeIds, n \in 0 .. MaxLen : sys_Read(t, p, n)
    \/ \E p \in UserPipeIds, end \in {"r", "w"} : sys_Close(t, p, end)
    \/ ResumeWrite(t)
    \/ ResumeRead(t)

SpecPipeFair ==
  /\ Init
  /\ [][PipeNextFair]_vars
  /\ \A t \in Tasks : WF_vars(ResumeRead(t)) /\ WF_vars(ResumeWrite(t))


\* Sockets, their connections and the pipe made by sys_Pipe.
SockNext ==
  \E t \in Tasks :
    \/ \E port \in Ports : Socket(t, port)
    \/ \E s \in SockIds : Listen(t, s)
    \/ \E s \in SockIds, g \in AcceptGarbage : Accept(t, s, g)
    \/ \E g \in AcceptGarbage : AcceptResume(t, g)
    \/ \E s \in SockIds, port \in Ports : Connect(t, s, port)
    \/ \E g \in ConnectGarbage : ConnectResume(t, g)
    \/ ConnectTimeout(t)
    \/ \E s \in SockIds, how \in {"SHUTDOWN_READ", "SHUTDOWN_WRITE", "SHUTDOWN_BOTH"} :
         ShutDown(t, s, how)
    \/ \E s \in SockIds : SockClose(t, s)
    \/ sys_Pipe(t)
    \/ \E p \in UserPipeIds, end \in {"r", "w"} : sys_Close(t, p, end)

SpecSock == Init /\ [][SockNext]_vars

\* Calls on a connected socket: the four calls a peer accepts.
PeerShutDown(t, s, how) == scb[s].type = "PEER" /\ ShutDown(t, s, how)

PeerClose(t, s) == scb[s].type = "PEER" /\ SockClose(t, s)

PeerWrite(t, s, buf) ==
  /\ scb[s].type = "PEER"
  /\ \A i \in 1 .. Len(buf) : buf[i] = (offered + i) % 2
  /\ SockWrite(t, s, buf)

PeerRead(t, s, n) == scb[s].type = "PEER" /\ SockRead(t, s, n)

\* Listeners, their accepters and their close, with a scheduler that runs every
\* thread that a broadcast on req_available has made ready.
AcceptNext ==
  \E t \in Tasks :
    \/ \E port \in Ports : Socket(t, port)
    \/ \E s \in SockIds : Listen(t, s)
    \/ \E s \in SockIds, g \in AcceptGarbage : Accept(t, s, g)
    \/ \E g \in AcceptGarbage : AcceptResume(t, g)
    \/ \E s \in SockIds : SockClose(t, s)

SpecAcceptFair ==
  /\ Init
  /\ [][AcceptNext]_vars
  /\ \A t \in Tasks : WF_vars(\E g \in AcceptGarbage : AcceptResume(t, g))

\* Listeners with more than one request in their queue.
QueueNext ==
  \E t \in Tasks :
    \/ \E port \in Ports : Socket(t, port)
    \/ \E s \in SockIds : Listen(t, s)
    \/ \E s \in SockIds, g \in AcceptGarbage : Accept(t, s, g)
    \/ \E g \in AcceptGarbage : AcceptResume(t, g)
    \/ \E s \in SockIds, port \in Ports : ConnectQueued(t, s, port)
    \/ \E g \in ConnectGarbage : ConnectResume(t, g)
    \/ ConnectTimeout(t)
    \/ \E s \in SockIds : SockClose(t, s)

SpecQueue == Init /\ [][QueueNext]_vars

\* Sockets on every port that sys_Socket accepts, MAX_PORT included, with the
\* word behind PORT_MAP changing under the kernel's feet.
PortAccept(t, s, g) ==
  /\ scb[s].refcount < MaxRefs
  /\ Accept(t, s, g)

PortNext ==
  \/ \E v \in {0, WILD} : Scribble(v)
  \/ \E t \in Tasks :
       \/ \E port \in PortArgs : Socket(t, port)
       \/ \E s \in SockIds : Listen(t, s)
       \/ \E s \in SockIds, g \in AcceptGarbage : PortAccept(t, s, g)
       \/ \E g \in AcceptGarbage : AcceptResume(t, g)
       \/ \E s \in SockIds, port \in PortArgs : Connect(t, s, port)
       \/ \E g \in ConnectGarbage : ConnectResume(t, g)
       \/ \E s \in SockIds : SockClose(t, s)

SpecPort == Init /\ [][PortNext]_vars

\* Connections that run to completion, then traffic on the connected pair.
\* Timed-out connection requests are explored in SpecSock.
ConnNext ==
  \E t \in Tasks :
    \/ \E port \in Ports \ {NOPORT} : Socket(t, port)
    \/ \E s \in SockIds : Listen(t, s)
    \/ \E s \in SockIds, g \in AcceptGarbage : Accept(t, s, g)
    \/ \E g \in AcceptGarbage : AcceptResume(t, g)
    \/ \E s \in SockIds, port \in Ports : Connect(t, s, port)
    \/ \E g \in ConnectGarbage : ConnectResume(t, g)
    \/ \E s \in SockIds, how \in {"SHUTDOWN_READ", "SHUTDOWN_WRITE", "SHUTDOWN_BOTH"} :
         PeerShutDown(t, s, how)
    \/ \E s \in SockIds : PeerClose(t, s)
    \/ \E s \in SockIds, buf \in Buffers : PeerWrite(t, s, buf)
    \/ \E s \in SockIds, n \in 0 .. MaxLen : PeerRead(t, s, n)
    \/ \E g \in BOOLEAN : SockResumeRead(t, g)
    \/ \E g \in BOOLEAN : SockResumeWrite(t, g)

SpecConn == Init /\ [][ConnNext]_vars

\* One process (init) and its threads.
ThreadNext ==
  \/ Boot
  \/ \E t \in Tids :
       \/ thr[MaxJoinThreads].st = "none" /\ CreateThread(t)
       \/ \E tid \in Tids, out \in BOOLEAN : ThreadJoin(t, tid, out)
       \/ JoinResume(t)
       \/ \E tid \in Tids : ThreadDetach(t, tid)
       \/ \E v \in ExitVals : ThreadExit(t, v)

SpecThread == Init /\ [][ThreadNext]_vars

\* Init starts single-threaded processes, which may start further threads, exit and
\* be waited for.  The scheduler eventually runs every thread that has been woken;
\* user code is free to make a call or not.
ProcNextFair ==
  \/ Boot
  \/ \E t \in Tids :
       \/ thr[t].owner = 1 /\ Exec(t, TRUE)
       \/ thr[t].owner # 1 /\ CreateThread(t)
       \/ ThreadExit(t, 1)
       \/ Exit(t, 1)
       \/ \E cpid \in Pids \cup {NOPROC}, status \in BOOLEAN : WaitChild(t, cpid, status)
       \/ WaitResume(t)
       \/ ExitResume(t)

SpecProcFair ==
  /\ Init
  /\ [][ProcNextFair]_vars
  /\ \A t \in Tids : WF_vars(WaitResume(t)) /\ WF_vars(ExitResume(t))

\* Processes that start processes and threads, exit and wait for their children,
\* in every interleaving.
ProcNext ==
  \/ Boot
  \/ \E t \in Tids :
       \/ Exec(t, TRUE)
       \/ CreateThread(t)
       \/ ThreadExit(t, 1)
       \/ Exit(t, 1)
       \/ \E cpid \in Pids \cup {NOPROC} : WaitChild(t, cpid, TRUE)
       \/ WaitResume(t)
       \/ ExitResume(t)

SpecProc == Init /\ [][ProcNext]_vars

\* Processes with and without a task: Exec is also called with a NULL task, and
\* WaitChild waits for any child.
ExecNext ==
  \/ Boot
  \/ \E t \in Tids :
       \/ \E call \in BOOLEAN : Exec(t, call)
       \/ CreateThread(t)
       \/ ThreadExit(t, 1)
       \/ Exit(t, 1)
       \/ WaitChild(t, NOPROC, TRUE)
       \/ WaitResume(t)
       \/ ExitResume(t)

SpecExec == Init /\ [][ExecNext]_vars

(***************************************************************************)
(* Properties of the pipe (SpecPipe, SpecPipeFair).                        *)
(***************************************************************************)
IsPrefix(a, b) == Len(a) <= Len(b) /\ SubSeq(b, 1, Len(a)) = a

C2_RingDiscipline ==
  \A p \in UserPipeIds :
    pipe[p].st # "none" =>
      /\ pipe[p].r_position \in Ring
      /\ pipe[p].w_position \in Ring
      /\ Unread(pipe[p]) <= PIPE_BUFFER_SIZE - 1
      /\ Unread(pipe[p]) = Len(hist[p].wrote) - Len(hist[p].got)

\* The ring is full and both positions have wrapped around.
C2_Witness ==
  \E p \in UserPipeIds :
    /\ Unread(pipe[p]) = PIPE_BUFFER_SIZE - 1
    /\ pipe[p].w_position < pipe[p].r_position

\* C3 (as stated): a pipe_read with n > 0 returns 0 if and only if, when it returns,
\* the ring is empty and the writer end is closed.
C3_AsStated ==
  (last.op = "read" /\ last.n > 0) =>
    (last.ret = 0 <=> (last.avail - last.ret = 0 /\ ~last.wopen))

\* C3 (amended): a pipe_read with n > 0 on an open reader end never fails; it returns
\* 0 if and only if the ring is empty and the writer end is closed when it stops
\* waiting; it never returns 0 while the writer is open, and it returns at least one
\* byte while unread bytes remain.
C3_ReadZeroIsEof ==
  (last.op = "read" /\ last.n > 0) =>
    /\ last.ret >= 0
    /\ last.ret = 0 <=> (last.avail = 0 /\ ~last.wopen)
    /\ last.ret = 0 => ~last.wopen
    /\ last.avail > 0 => last.ret >= 1

\* A read that had to wait returned 0.
C3_Witness ==
  last.op = "read" /\ last.n > 0 /\ last.ret = 0 /\ last.waited

\* C4: a pipe_write that finds the reader end closed, at its start or after waiting
\* on a full ring, returns -1 and leaves BUFFER and w_position as they were.
C4_WriteFailsWithoutReader ==
  (last.op = "write" /\ ~last.ropen) => (last.ret = -1 /\ ~last.changed)

\* A write that waited on a full ring returned -1 because the reader closed.
C4_Witness ==
  last.op = "write" /\ ~last.ropen /\ last.waited /\ last.n > 0 /\ last.ret = -1

\* C5: a read blocked on an empty pipe whose writer has closed eventually returns 0,
\* and a write blocked on a pipe whose reader has closed eventually returns -1.
C5_HalfCloseWakes ==
  \A t \in Tasks :
    /\ (/\ task[t].pc = "pipe_read"
        /\ ~pipe[task[t].p].writer
        /\ pipe[task[t].p].r_position = pipe[task[t].p].w_position)
         ~> (last.t = t /\ last.op = "read" /\ last.waited /\ last.ret = 0)
    /\ (task[t].pc = "pipe_write" /\ ~pipe[task[t].p].reader)
         ~> (last.t = t /\ last.op = "write" /\ last.waited /\ last.ret = -1)

\* pipe_writer_close has just run while a read was blocked on the empty pipe, and
\* the blocked reader has been woken.
C5_Witness ==
  /\ last.op = "close"
  /\ \E t \in Tasks :
       /\ task[t].pc = "pipe_read"
       /\ task[t].woken
       /\ ~pipe[task[t].p].writer
       /\ pipe[task[t].p].st = "live"
       /\ pipe[task[t].p].r_position = pipe[task[t].p].w_position

(***************************************************************************)
(* Properties of pipe lifetimes (SpecSock).                                *)
(***************************************************************************)
\* C6: a pipe control block, made by sys_Pipe or by sys_Accept for a connection, is
\* freed exactly when both its ends are closed: never while its reader or its
\* writer is still open, at once when the second end closes, and never twice,
\* under every order of ShutDown and Close calls on the sockets and descriptors.
C6_PipeFreedOnce ==
  \A p \in PipeIds :
    /\ pipe[p].frees <= 1
    /\ pipe[p].st = "freed" <=> (pipe[p].frees = 1)
    /\ pipe[p].st = "freed" <=>
         (pipe[p].st # "none" /\ ~pipe[p].reader /\ ~pipe[p].writer)

\* The pipe made by sys_Pipe and both pipes of a connection have been freed, and
\* one peer socket is still open: its two ends were closed by ShutDown.
C6_Witness ==
  /\ \A p \in PipeIds : pipe[p].st = "freed" /\ pipe[p].frees = 1
  /\ \E s \in SockIds :
       /\ sfid[s] /\ scb[s].type = "PEER"
       /\ scb[s].read_pipe = 0 /\ scb[s].write_pipe = 0

(***************************************************************************)
(* Properties of threads (SpecThread).                                     *)
(***************************************************************************)
Joiners(k) == {j \in Tids : thr[j].st = "join" /\ thr[j].tid = k}

\* C7: when ThreadJoin(t, &out) returns 0 with out not NULL, the thread t has
\* exited and out holds exactly the value it passed to ThreadExit, whether the
\* join started before or after the exit.
C7_JoinDeliversExitValue ==
  (tlast.op = "join" /\ tlast.ret = 0 /\ tlast.want) =>
    (tlast.exit # {} /\ tlast.out = tlast.exit)

\* A join that started before the exit, and waited for it, returned 0 and received
\* the second exit value.
C7_Witness ==
  /\ tlast.op = "join" /\ tlast.ret = 0 /\ tlast.want /\ tlast.waited
  /\ tlast.out = {2}

\* C8: once ThreadDetach(t) has returned 0, every ThreadJoin(t) that returns
\* returns -1 and stores no exit value, the joins blocked at the detach have been
\* woken to do so, and no join of t has ever returned 0; this stays so when t
\* exits afterwards.
C8_DetachedJoinFails ==
  /\ (tlast.op = "join" /\ tlast.det) => (tlast.ret = -1 /\ tlast.out = {})
  /\ \A k \in ghost.detached_ok :
       /\ ghost.joined[k] = {}
       /\ \A j \in Joiners(k) : thr[j].woken

\* A join that was blocked when the detach returned 0 returns -1 after the
\* detached thread has exited.
C8_Witness ==
  /\ tlast.op = "join" /\ tlast.det /\ tlast.waited /\ tlast.want
  /\ tlast.exit # {}
  /\ tlast.ret = -1

\* C9: every join that took its reference on a thread that was not detached
\* returns 0 with the thread's exit value; the PTCB is freed at most once, only at
\* reference count 0 with no joiner left inside and after it was unlinked from
\* ptcb_list, a live PTCB's reference count is the number of joiners inside, and
\* no joiner touches a freed PTCB.
C9_ConcurrentJoiners ==
  /\ (tlast.op = "join" /\ tlast.entered /\ ~tlast.det) =>
       (tlast.ret = 0 /\ tlast.exit # {} /\ (tlast.want => tlast.out = tlast.exit))
  /\ ~crash.uaf
  /\ \A k \in Tids :
       /\ ptcb[k].frees <= 1
       /\ ptcb[k].st = "freed" =>
            /\ ptcb[k].refcount = 0
            /\ Joiners(k) = {}
            /\ \A p \in Pids : ~InList(PT[p].ptcb_list, k)
       /\ ptcb[k].st = "live" => ptcb[k].refcount = Cardinality(Joiners(k))

\* Two threads have joined the same thread with result 0; the one that returned
\* last had waited for the exit and freed the PTCB while the process lives on.
C9_Witness ==
  /\ tlast.op = "join" /\ tlast.ret = 0 /\ tlast.waited
  /\ Cardinality(ghost.joined[tlast.arg]) >= 2
  /\ ptcb[tlast.arg].st = "freed"
  /\ PT[1].pstate = "ALIVE"

(***************************************************************************)
(* Properties of processes (SpecProcFair).                                 *)
(***************************************************************************)
\* A child of process p that has called Exit and has not been reaped.
ExitedChild(p) ==
  {c \in Pids : PT[c].pstate # "FREE" /\ PT[c].parent = p /\ c \in ghost.called_exit}

\* C10 (as stated): if a child of P has called Exit, a WaitChild(NOPROC) call
\* waiting in P eventually returns a child's pid, and a WaitChild(NOPROC) call never
\* waits in a process without children.
C10_AsStated ==
  /\ \A t \in Tids :
       (thr[t].st = "wait_any" /\ ExitedChild(thr[t].owner) # {})
         ~> (tlast.t = t /\ tlast.op = "wait" /\ tlast.arg = NOPROC /\ tlast.ret \in Pids)
  /\ [](\A t \in Tids :
          (thr[t].st = "wait_any" /\ ~thr[t].woken)
            => PT[thr[t].owner].children_list # <<>>)

(***************************************************************************)
(* Properties of the process tree (SpecProc).                              *)
(***************************************************************************)
\* C11 (as stated): after the last thread of a non-init process P has exited while
\* P had living children, each of them has parent pid 1 and is on pid 1's children
\* list, and pid 1's child_exit has been broadcast.
C11_AsStated ==
  (tlast.op = "exit" /\ tlast.arg # 1 /\ tlast.kids # {}) =>
    /\ \A c \in tlast.kids : PT[c].parent = 1 /\ InList(PT[1].children_list, c)
    /\ 1 \in tlast.bcast

\* C11 (amended): after the last thread of a non-init process P has exited while P
\* had living children, each of them has parent pid 1 and is on pid 1's children
\* list and no longer on P's; pid 1's child_exit has been broadcast exactly when
\* P's parent is pid 1 or P had exited children, and the child_exit of P's parent
\* has been broadcast in every case.
C11_Reparenting ==
  (tlast.op = "exit" /\ tlast.arg # 1 /\ tlast.kids # {}) =>
    /\ \A c \in tlast.kids :
         /\ PT[c].parent = 1
         /\ InList(PT[1].children_list, c)
         /\ \A q \in Pids \ {1} : ~InList(PT[q].children_list, c)
    /\ 1 \in tlast.bcast <=> (PT[tlast.arg].parent = 1 \/ tlast.had)
    /\ PT[tlast.arg].parent \in tlast.bcast

\* A process whose parent is not init has exited with a living child: the child
\* is init's now, and init's child_exit was not broadcast.
C11_Witness ==
  /\ tlast.op = "exit" /\ tlast.arg # 1 /\ tlast.kids # {}
  /\ PT[tlast.arg].parent # 1
  /\ \A c \in tlast.kids : PT[c].parent = 1
  /\ 1 \notin tlast.bcast

(***************************************************************************)
(* Properties of sockets (SpecSock).                                       *)
(***************************************************************************)
\* The open listeners bound to port p.
Listeners(p) ==
  {s \in SockIds : sfid[s] /\ scb[s].type = "LISTENER" /\ scb[s].port = p}

\* C12: at most one open LISTENER socket is bound to a port, and it is the one in
\* PORT_MAP; PORT_MAP holds nothing but open listeners, so the entry of a closed
\* listener is none; a Listen on an occupied port returns -1 and changes nothing,
\* and a Listen by an UNBOUND socket on a free port other than NOPORT returns 0
\* and binds the socket.
C12_OneListenerPerPort ==
  /\ \A p \in Ports :
       /\ Cardinality(Listeners(p)) <= 1
       /\ Listeners(p) = IF PORT_MAP[p] = 0 THEN {} ELSE {PORT_MAP[p]}
  /\ \A s \in SockIds :
       sfid[s] =>
         IF PORT_MAP[scb[s].port] # 0
         THEN sys_Listen(Sock, s) = SRet(Sock, -1)
         ELSE (scb[s].type = "UNBOUND" /\ scb[s].port # NOPORT) =>
                /\ sys_Listen(Sock, s).ret = 0
                /\ sys_Listen(Sock, s).pm[scb[s].port] = s

\* A socket listens on a port whose former listener was closed, while another
\* open socket of that port would be refused.
C12_Witness ==
  \E p \in Ports, s, u \in SockIds :
    /\ Cardinality(Listeners(p)) = 1
    /\ ~sfid[s] /\ scb[s].type = "LISTENER" /\ scb[s].port = p
    /\ sfid[u] /\ scb[u].type = "UNBOUND" /\ scb[u].port = p

ConnectReturnsZero ==
  \A t \in Tasks :
    (/\ task[t].pc = "connect" /\ task[t].woken
     /\ req[task[t].n].admitted = 1
     /\ sfid[task[t].p] /\ scb[task[t].p].st = "live") =>
      \A g \in ConnectGarbage :
        connect_wake(Sock, task[t].p, task[t].n, g).ret = 0

\* The two ends of a connection: both PEER, each the other's peer, and the
\* write pipe of each, while it has one, the read pipe of the other.
PeersPaired ==
  \A s \in SockIds :
    (scb[s].st = "live" /\ scb[s].type = "PEER" /\ scb[scb[s].peer].st = "live") =>
      LET q == scb[s].peer IN
      /\ q # s /\ scb[q].type = "PEER" /\ scb[q].peer = s
      /\ (scb[s].write_pipe # 0 /\ scb[q].read_pipe # 0) =>
           scb[s].write_pipe = scb[q].read_pipe

\* The bytes read from a pipe are the bytes written to it, in order.
BytesDelivered ==
  \A p \in PipeIds : IsPrefix(hist[p].got, hist[p].wrote)

\* C13: a Connect on an UNBOUND socket c that meets an Accept before its timeout
\* returns 0, the two SCBs are PEER sockets paired with crossed pipes, and the
\* bytes read on one end are the bytes written on the other.
C13_AsStated == ConnectReturnsZero /\ PeersPaired /\ BytesDelivered

\* The smaller of two numbers.
Least(x, y) == IF x <= y THEN x ELSE y

\* The next k bytes of pipe p that no read has returned yet.
NextBytes(p, k) == SubSeq(hist[p].wrote, Len(hist[p].got) + 1, Len(hist[p].got) + k)

\* In kernel state S a read of n bytes on socket c, which reads pipe p whose
\* writer is gone, returns at once the unread bytes, and 0 when there are none.
ReadsDrain(S, c, p) ==
  \A t \in Tasks, n \in 0 .. MaxLen :
    S.task[t].pc = "idle" =>
      LET R == socket_read(S, t, c, n) IN
      /\ ~R.blocked
      /\ R.ret = Least(n, Unread(S.pipe[p]))
      /\ R.data = NextBytes(p, R.ret)

\* In kernel state S every read that waits on socket c for pipe p has been woken
\* and returns, with the unread bytes or with 0, when it runs again.
BlockedReadsReturn(S, c, p) ==
  \A t \in Tasks :
    (S.task[t].pc = "pipe_read" /\ S.task[t].s = c /\ S.task[t].p = p) =>
      /\ S.task[t].woken
      /\ \A g \in BOOLEAN :
           LET R == socket_resume(S, t, g) IN
           /\ ~R.blocked
           /\ R.ret = Least(S.task[t].n, Unread(S.pipe[p]))
           /\ R.data = NextBytes(p, R.ret)

\* In kernel state S every write on socket a returns -1.
WritesFail(S, a) ==
  \A t \in Tasks, buf \in Buffers :
    S.task[t].pc = "idle" => socket_write(S, t, a, buf).ret = -1

\* C14: ShutDown(a, SHUTDOWN_WRITE) on a connected socket a returns 0; from then
\* on a read on its peer c, while c has its read side, returns the buffered bytes
\* and then 0 without blocking; every read that was blocked on c has been woken
\* and returns; and every later write on a returns -1.
C14_AsStated ==
  \A a \in SockIds :
    (sfid[a] /\ scb[a].st = "live" /\ scb[a].type = "PEER") =>
      LET c == scb[a].peer
          p == scb[a].write_pipe
          S == sys_ShutDown(Sock, a, "SHUTDOWN_WRITE")
      IN /\ S.ret = 0
         /\ WritesFail(S, a)
         /\ p = 0 => WritesFail(Sock, a)
         /\ p # 0 =>
              /\ BlockedReadsReturn(S, c, p)
              /\ (S.fid[c] /\ S.scb[c].read_pipe = p) => ReadsDrain(S, c, p)
         /\ \A q \in PipeIds :
              (sfid[c] /\ scb[c].st = "live" /\ scb[c].read_pipe = q /\ ~pipe[q].writer) =>
                ReadsDrain(Sock, c, q)

(***************************************************************************)
(* Properties of connection requests and SCB lifetimes (SpecSock).         *)
(***************************************************************************)
\* Request r was left behind by a Connect whose wait timed out: the request is
\* allocated and no thread is inside the Connect that made it.
Expired(r) ==
  /\ req[r].st = "live"
  /\ \A t \in Tasks : ~(task[t].pc = "connect" /\ task[t].n = r)

\* C15: a connection request whose Connect has timed out is never admitted by a
\* later Accept, and the socket of the timed-out connector is not made a PEER.
C15_AsStated ==
  \A r \in ReqIds :
    Expired(r) => (req[r].admitted = 0 /\ scb[req[r].peer].type # "PEER")

\* An Accept or a Connect call is inside the kernel with the SCB of socket s.
ScbInUse(s) ==
  \E t \in Tasks : task[t].pc \in {"accept", "connect"} /\ task[t].p = s

\* The SCB of socket s has been freed once its descriptor is closed and no call
\* uses it.
FreedWhenReleased(s) ==
  (scb[s].st # "none" /\ ~sfid[s] /\ ~ScbInUse(s)) => scb[s].st = "freed"

\* C16: every SCB is freed exactly once: it has been freed once its descriptor is
\* closed and no Accept or Connect call uses it, and it is never freed twice.
C16_AsStated ==
  \A s \in SockIds : FreedWhenReleased(s) /\ scb[s].frees <= 1

(***************************************************************************)
(* Properties of the process table (SpecExec, SpecProc).                   *)
(***************************************************************************)
\* C17 (as stated): in every PCB slot, pids 0 and 1 included, thread_count > 0
\* exactly when pstate = ALIVE.
C17_AsStated ==
  \A p \in Pids : PT[p].thread_count > 0 <=> PT[p].pstate = "ALIVE"

\* C17 (amended): while the kernel runs (no assertion has aborted it), in every
\* PCB slot thread_count > 0 exactly when pstate = ALIVE and the process was given
\* a task; a process made by Exec with a NULL task, as the idle process pid 0 is,
\* is ALIVE with thread_count = 0.
C17_ThreadCountOfTasks ==
  ~crash.panic =>
    /\ \A p \in Pids :
         PT[p].thread_count > 0 <=> (PT[p].pstate = "ALIVE" /\ PT[p].main_task)
    /\ PT[0].pstate = "ALIVE" /\ PT[0].thread_count = 0

\* A process with two threads, a ZOMBIE that had a task, and a process other than
\* pid 0 that is ALIVE without a task and without threads.
C17_Witness ==
  \E p, q, z \in Pids \ {0} :
    /\ ~crash.panic
    /\ PT[p].pstate = "ALIVE" /\ PT[p].thread_count = 2
    /\ PT[q].pstate = "ALIVE" /\ ~PT[q].main_task /\ PT[q].thread_count = 0
    /\ PT[z].pstate = "ZOMBIE" /\ PT[z].main_task /\ PT[z].thread_count = 0

\* C18: the two assertions in the last-thread branch of sys_ThreadExit never
\* fail, and a ZOMBIE process, init included, has an empty children_list and an
\* empty exited_list.
C18_AsStated ==
  /\ ~crash.panic
  /\ \A p \in Pids :
       PT[p].pstate = "ZOMBIE" =>
         (PT[p].children_list = <<>> /\ PT[p].exited_list = <<>>)

\* C19 (as stated): a WaitChild(NOPROC) that reaps a child reaps the one that
\* became ZOMBIE first among the caller's zombie children.
C19_AsStated ==
  (tlast.op = "wait" /\ tlast.arg = NOPROC /\ tlast.ret \in Pids) =>
    tlast.older = {}

\* C19 (amended): a WaitChild(NOPROC) that reaps a child reaps the one that exited
\* last among the caller's own exited children; a zombie that init inherited from
\* an exiting process is reaped only when no own exited child of init is left.
C19_NewestFirst ==
  (tlast.op = "wait" /\ tlast.arg = NOPROC /\ tlast.ret \in Pids) =>
    tlast.newer = {}

\* A WaitChild(NOPROC) has reaped a child while an older zombie child of the
\* caller was waiting to be reaped.
C19_Witness ==
  /\ tlast.op = "wait" /\ tlast.arg = NOPROC /\ tlast.ret \in Pids
  /\ tlast.older # {}
  /\ tlast.newer = {}

(***************************************************************************)
(* Properties of pipe_write return values (SpecPipe).                      *)
(***************************************************************************)
\* C20: a pipe_write of n bytes that returns with the reader end open returns
\* exactly n; it returns a smaller count only if the reader end was closed.
C20_AsStated ==
  (last.op = "write" /\ last.ropen) => last.ret = last.n

\* C21: a pipe_write or a pipe_read with n = 0 never blocks, and it returns 0 (the
\* write: unless the reader end is closed, when it returns -1 as every write).
C21_AsStated ==
  /\ \A t \in Tasks :
       (task[t].s = 0 /\ task[t].pc \in {"pipe_write", "pipe_read"}) => task[t].n > 0
  /\ (last.op = "write" /\ last.n = 0 /\ last.ropen) => last.ret = 0
  /\ (last.op = "read" /\ last.n = 0) => last.ret = 0

(***************************************************************************)
(* Properties of the failure modes of ThreadJoin (SpecThread).             *)
(***************************************************************************)
\* Thread t may not join tid: tid is not on the PTCB list of t's process, is t
\* itself, or is detached.
JoinRefused(t, tid) ==
  \/ ~InList(PT[thr[t].owner].ptcb_list, tid)
  \/ tid = t
  \/ ptcb[tid].detached = 1

\* C22: a ThreadJoin(tid) whose target is not on the caller's PTCB list, is the
\* caller itself or is detached returns -1 with no exit value, does not block, and
\* leaves every PTCB (refcount, exited, detached), every PTCB list and every
\* thread as they were.
C22_JoinFailsUnchanged ==
  [][\A t, tid \in Tids, out \in BOOLEAN :
       (ThreadJoin(t, tid, out) /\ JoinRefused(t, tid)) =>
         /\ tlast'.op = "join" /\ tlast'.t = t /\ tlast'.arg = tid
         /\ tlast'.ret = -1 /\ tlast'.out = {} /\ ~tlast'.entered
         /\ ptcb' = ptcb /\ PT' = PT /\ thr' = thr /\ crash' = crash]_vars

\* A join of a detached thread has returned -1 at once, while a joiner that was
\* blocked at the detach still holds its reference on the target.
C22_Witness ==
  /\ tlast.op = "join" /\ tlast.ret = -1 /\ ~tlast.entered /\ ~tlast.waited
  /\ tlast.arg # tlast.t
  /\ ptcb[tlast.arg].detached = 1
  /\ ptcb[tlast.arg].refcount = 1
  /\ Joiners(tlast.arg) # {}

(***************************************************************************)
(* Properties of sockets on every port that sys_Socket accepts (SpecPort).  *)
(***************************************************************************)
\* The conditions of the specification for a Listen on socket s to succeed.
MayListen(s) ==
  /\ sfid[s] /\ scb[s].st = "live" /\ scb[s].type = "UNBOUND"
  /\ scb[s].port # NOPORT /\ scb[s].port \in 1 .. MAX_PORT
  /\ Listeners(scb[s].port) = {} /\ PORT_MAP[scb[s].port] = 0

C23_InBounds ==
  \A s \in SockIds :
    scb[s].port \in Ports =>
      LET L == sys_Listen(Sock, s) IN
      IF MayListen(s) THEN L.ret = 0 /\ L.pm[scb[s].port] = s /\ L.scb[s].type = "LISTENER"
      ELSE L.ret = -1 /\ L.pm = PORT_MAP /\ L.scb[s].type = scb[s].type

(***************************************************************************)
(* Properties of accepters (SpecAcceptFair).                               *)
(***************************************************************************)
\* Thread t is in the wait of sys_Accept on listener s, whose queue is empty
\* and whose descriptor has been closed.
AcceptOnClosed(t, s) ==
  /\ task[t].pc = "accept" /\ task[t].p = s
  /\ scb[s].queue = <<>> /\ ~sfid[s]

Holders(s) == {t \in Tasks : task[t].pc \in {"accept", "connect"} /\ task[t].p = s}

\* C25: the refcount of an open socket counts the threads that are inside
\* sys_Accept or sys_Connect on it: every call that has returned has taken its
\* increment back.
C25_AsStated ==
  \A s \in SockIds :
    (sfid[s] /\ scb[s].st = "live") => scb[s].refcount = Cardinality(Holders(s))

\* The same for the listeners alone.
C25_Accept ==
  \A s \in SockIds :
    (sfid[s] /\ scb[s].st = "live" /\ scb[s].type = "LISTENER") =>
      scb[s].refcount = Cardinality(Holders(s))

(***************************************************************************)
(* Types of sockets (SpecSock).                                            *)
(***************************************************************************)
\* C26: while an SCB is allocated its type changes only from UNBOUND: to
\* LISTENER, by the sys_Listen that binds it in PORT_MAP, and to PEER, by the
\* sys_Accept that pairs it with its peer; a LISTENER or PEER keeps its type.
C26_TypeIsFinal ==
  [][\A s \in SockIds :
       (scb[s].st = "live" /\ scb'[s].st = "live" /\ scb'[s].type # scb[s].type) =>
         /\ scb[s].type = "UNBOUND"
         /\ \/ scb'[s].type = "LISTENER" /\ PORT_MAP[scb[s].port] = 0
                                          /\ PORT_MAP'[scb[s].port] = s
            \/ /\ scb'[s].type = "PEER" /\ scb'[s].peer \in SockIds \ {s}
               /\ scb'[scb'[s].peer].type = "PEER" /\ scb'[scb'[s].peer].peer = s
               /\ scb[scb'[s].peer].type = "UNBOUND"]_vars

\* Two sockets that sys_Accept has made peers of each other, one of them shut
\* down since, next to a listener.
C26_Witness ==
  \E a, b, l \in SockIds :
    /\ scb[a].st = "live" /\ scb[b].st = "live" /\ scb[l].st = "live"
    /\ scb[a].type = "PEER" /\ scb[b].type = "PEER" /\ scb[a].peer = b
    /\ scb[a].write_pipe = 0 /\ scb[l].type = "LISTENER"

(***************************************************************************)
(* Order of the requests of a listener (SpecQueue).                        *)
(***************************************************************************)
\* The requests in the queue of listener s.  Requests are allocated in the
\* order of their numbers, so on one queue the smaller number was enqueued first.
Queued(s) == {scb[s].queue[i] : i \in 1 .. Len(scb[s].queue)}

\* C27: a step that takes request r from the queue of a listener leaves no
\* request behind that was put on that queue before r.
C27_PoppedInOrder ==
  [][\A s \in SockIds, r \in ReqIds :
       (r \in Queued(s) /\ r \notin Queued(s)') => \A r1 \in Queued(s) : r1 >= r]_vars

\* The only listener there has been has had its first request taken by a
\* sys_Accept that admitted it, and still holds the second.
C27_Witness ==
  \E l \in SockIds :
    /\ scb[l].type = "LISTENER" /\ scb[l].queue = <<2>>
    /\ \A s \in SockIds \ {l} : scb[s].type # "LISTENER"
    /\ req[1].admitted = 1

(***************************************************************************)
(* Lifetime of socket control blocks and of requests (SpecSock).           *)
(***************************************************************************)
\* C28: no SCB is freed while a thread is inside sys_Accept or sys_Connect on
\* it, and no SCB is read or written after its free.
C28_AsStated ==
  /\ \A s \in SockIds : ScbInUse(s) => scb[s].st # "freed"
  /\ "scb" \notin suaf

\* The part of C28 about the reads and writes alone.
C28_NoUseAfterFree == "scb" \notin suaf

\* The part of C29 about sys_Accept: every request on a queue is allocated.
C29_QueuedAllocated ==
  \A s \in SockIds : \A r \in Queued(s) : req[r].st = "live"

\* C29: no request is read or written after its free: sys_Connect reads the
\* admitted flag of an allocated request only, and the requests that sys_Accept
\* finds on a queue are allocated.
C29_AsStated == "request" \notin suaf /\ C29_QueuedAllocated

(***************************************************************************)
(* The process table under concurrent WaitChild (SpecProc).                *)
(***************************************************************************)
\* The slots met on the way from slot p along the links of the free list, n
\* links at most.
RECURSIVE FreeListFrom(_, _)
FreeListFrom(p, n) ==
  IF p = NOPROC \/ n = 0 THEN <<>>
  ELSE <<p>> \o FreeListFrom(PT[p].parent, n - 1)

FreeSlots == {p \in Pids : PT[p].pstate = "FREE"}

\* process_count is the number of slots that are not FREE.
CountIsUsedSlots == process_count = Cardinality(Pids \ FreeSlots)

\* The free list holds every FREE slot once and nothing else.
FreeListIsFreeSlots ==
  LET fl == FreeListFrom(pcb_freelist, MAX_PROC + 1) IN
  /\ Len(fl) = Cardinality(FreeSlots)
  /\ {fl[i] : i \in 1 .. Len(fl)} = FreeSlots

\* C30: while the kernel runs, process_count is the number of slots in use and
\* the free list holds each FREE slot exactly once, whatever calls of WaitChild
\* the threads of a parent make on its children.
C30_AsStated == ~crash.panic => (CountIsUsedSlots /\ FreeListIsFreeSlots)

(***************************************************************************)
(* Reference counts of PTCBs (SpecThread).                                 *)
(***************************************************************************)
\* C31: whenever no thread runs inside the kernel, the refcount of an allocated
\* PTCB is the number of threads that are in the wait of sys_ThreadJoin on it,
\* and a PTCB that has been freed, by a joiner or by the exit of the last
\* thread of its process, has no such thread and was freed with refcount 0.
C31_RefcountIsJoiners ==
  \A k \in Tids :
    /\ ptcb[k].st = "live" => ptcb[k].refcount = Cardinality(Joiners(k))
    /\ ptcb[k].st = "freed" => (Joiners(k) = {} /\ ptcb[k].refcount = 0)
    /\ ptcb[k].st = "none" => Joiners(k) = {}

\* Two threads wait in sys_ThreadJoin on a thread that has exited and woken
\* them; neither has run yet.
C31_Witness ==
  \E k \in Tids :
    /\ ptcb[k].st = "live" /\ ptcb[k].exited = 1 /\ ptcb[k].refcount = 2
    /\ Cardinality(Joiners(k)) = 2 /\ \A j \in Joiners(k) : thr[j].woken

(***************************************************************************)
(* Lifetime of the pipes of a connection (SpecConn, SpecPipe).             *)
(***************************************************************************)
\* The threads that are inside pipe_read or pipe_write on pipe p.
PipeWaiters(p) ==
  {t \in Tasks : task[t].pc \in {"pipe_read", "pipe_write"} /\ task[t].p = p}

\* C32: no pipe control block is freed while a thread is inside pipe_read or
\* pipe_write on it.
C32_AsStated == \A p \in PipeIds : PipeWaiters(p) # {} => pipe[p].st # "freed"

(***************************************************************************)
(* Range of the reference count of a socket (SpecSock).                    *)
(***************************************************************************)
\* C33: the refcount of an SCB is never decremented while it is 0, so it never
\* holds the largest value of its unsigned type (255 for the 8 bits that the
\* count has here).
C33_AsStated == \A s \in SockIds : scb[s].st = "live" => scb[s].refcount # 255

(***************************************************************************)
(* Indices into PORT_MAP (SpecPort).                                       *)
(***************************************************************************)
\* The open sockets on which sys_Listen, sys_Accept and socket_close get past
\* their tests of the port and use it as an index into PORT_MAP.
IndexesPortMap(s) ==
  sfid[s] /\ scb[s].st = "live" /\ scb[s].port >= 0 /\ scb[s].port <= MAX_PORT

\* C34: the port of every such socket is an index of the array, which has the
\* elements 0 .. MAX_PORT - 1.
C34_AsStated == \A s \in SockIds : IndexesPortMap(s) => scb[s].port \in Ports

====
